---- MODULE Spec2Model ----
(***************************************************************************)
(* Verification model of the EAMSA 512 repository.                         *)
(*                                                                         *)
(*   Part I   - the authenticated encryption of the basic implementation  *)
(*              (DeriveKeys, EncryptBlock/DecryptBlock, ComputeHMAC,       *)
(*              EncryptData, DecryptData), specification SpecAEAD.         *)
(*   Part II  - the KeyManager of example/key-rotation.go, specification   *)
(*              SpecKM.                                                    *)
(*                                                                         *)
(* Byte strings are sequences over 0..255.  Go indexes from 0, TLA+ from   *)
(* 1: position i of the source is position i+1 here.                       *)
(***************************************************************************)
EXTENDS Integers, Sequences, FiniteSets, TLC

(***************************************************************************)
(* Program constants.                                                      *)
(***************************************************************************)
BlockSize == 64

Rounds == 16

NonceSize == 16

TagSize == 64

KeySize == 32

numKeys == 11

keySize == 16

hmacBlockSize == 136

ipadByte == 54

opadByte == 92

(***************************************************************************)
(* Bounds of the model.                                                    *)
(***************************************************************************)
MaxBlocks == 1

(***************************************************************************)
(* Bytes.                                                                  *)
(***************************************************************************)
Byte == 0..255

RECURSIVE XorBits(_, _, _)
XorBits(a, b, n) ==
  IF n = 0 THEN 0
  ELSE ((a + b) % 2) + 2 * XorBits(a \div 2, b \div 2, n - 1)

\* A byte string given position by position, as a sequence of n bytes.
Bytes(n, f) == SubSeq(f, 1, n)

\* The table of a ^ b over the half-bytes: entry [a + 1][b + 1].
NibbleXor == Bytes(16, [a \in 1..16 |-> Bytes(16, [b \in 1..16 |-> XorBits(a - 1, b - 1, 4)])])

\* Go's ^ on two bytes.
Xor(a, b) ==
  16 * NibbleXor[(a \div 16) + 1][(b \div 16) + 1] + NibbleXor[(a % 16) + 1][(b % 16) + 1]

XorSeq(s, t) == Bytes(Len(s), [i \in 1..Len(s) |-> Xor(s[i], t[i])])

Repeat(b, n) == Bytes(n, [i \in 1..n |-> b])

\* Go evaluates a statement's value before the next statement runs: v is
\* computed first, then e (which uses it).
Strict(v, e) == IF v = v THEN e ELSE e

RECURSIVE For(_, _, _, _)
\* for i := lo; i <= hi; i++ { acc = Body(acc, i) }: the iterations run in
\* order, each on the value the one before it left.
For(Body(_, _), acc, lo, hi) ==
  IF lo > hi THEN acc
  ELSE IF lo = hi THEN Body(acc, lo)
  ELSE LET mid == (lo + hi) \div 2
           left == For(Body, acc, lo, mid)
       IN  Strict(left, For(Body, left, mid + 1, hi))

(***************************************************************************)
(* crypto/sha3.  The library is not part of the repository; the sponge is  *)
(* modelled as a deterministic compression of the whole input into a       *)
(* 24-bit chaining value (domain-separated by the digest width), squeezed  *)
(* into the digest bytes.  It keeps what the callers rely on: the digest   *)
(* length, determinism, and dependence on every input byte and on its      *)
(* position.                                                               *)
(***************************************************************************)
HashModulus == 16777213

HashMultiplier == 127

\* Absorbs data, byte by byte, into the chaining value acc.
Absorb(acc, data) ==
  For(LAMBDA a, i : (a * HashMultiplier + data[i] + 1) % HashModulus,
      acc, 1, Len(data))

\* The n digest bytes squeezed out of the chaining value s.
Squeeze(s, n) ==
  For(LAMBDA st, k :
        LET t == (st.s * HashMultiplier + k) % HashModulus
        IN  [s |-> t, out |-> Append(st.out, (t \div 256) % 256)],
      [s |-> s, out |-> << >>], 1, n).out

SHA3_512(data) == Strict(data, Squeeze(Absorb(512, data), 64))

SHA3_256(data) == Strict(data, Squeeze(Absorb(256, data), 32))

(***************************************************************************)
(* The substitution layer.  SubstituteBlock maps every byte b to the first *)
(* byte of SHA3-256 of the one-byte string b; over the 256 possible inputs *)
(* that is a fixed table, given here with the library's actual values      *)
(* (entry b+1 is the image of b).                                          *)
(***************************************************************************)
SBoxTable ==
  <<  93,  39,  10, 227, 152,  59,  90,  82,   4, 139, 167, 150, 145, 204,  71, 184,
     206, 141, 191,  21, 249, 110,  44, 198,  40, 255, 247,  19,   4, 102, 100, 105,
      96, 105,  25,  65,  94, 178, 124,  99, 113, 185, 130, 121,  69, 167, 104,  18,
     249, 103, 177,  27, 180, 134,  12, 143, 209, 118, 118,  54, 192, 239, 102, 216,
       5,  28,  82,  34,   3, 230, 202,  37,  44, 200,  84,   7,  38, 105,  52,  96,
     229, 186, 208,  22, 179, 120,  62,  76,  49,   8,  31, 164, 128, 153,  27, 183,
     116, 128, 176,  38,  76,  66, 160, 159,  90, 191, 243, 124,  62,  27, 142,  18,
      20, 138, 246, 205, 136, 215,  69, 241, 116, 157,  59, 253, 104,  91, 170, 170,
     188,  31,  58, 115, 142, 214,  11,  46, 123,   8, 186, 235, 151, 211, 167, 193,
      84, 234,  30, 172, 221, 114,  58, 246, 154, 201,  62, 249, 196,  75, 253, 155,
      42, 164, 120,  39, 152, 116, 147, 108, 142,  82, 173, 219, 176,   5, 170, 193,
       7, 166,  82,  15, 126, 120, 141,  76, 130,  53,  68, 151, 153, 179, 173,  11,
     241,  25,  49, 196, 199, 190,  22, 136, 197,  62, 200, 205, 103, 161, 150,  73,
     206, 127,  24, 171,  61, 160,  35, 116,  61,  36, 181, 218,  78, 249, 184,  15,
     223, 124,  98, 217,  55,  56, 134,  64, 175, 240, 210, 125,  17, 131,  61,  20,
     208, 209, 235,  93, 249,  86,  69,  27,  52, 104,  73, 137,  26,  25,  75,  68 >>

SubstituteBlock(block) ==
  Bytes(Len(block), [i \in 1..Len(block) |-> SBoxTable[block[i] + 1]])

\* newPos := (i*5 + 7) % len(block), for the 0-based position i.
NewPos(i, n) == (i * 5 + 7) % n

\* The 0-based position whose byte PermuteBlock stores at position p of a
\* BlockSize block (entry p + 1).
PermSource ==
  Bytes(BlockSize, [q \in 1..BlockSize |->
          CHOOSE i \in 0..(BlockSize - 1) : NewPos(i, BlockSize) = q - 1])

SourceOf(p, n) ==
  IF n = BlockSize THEN PermSource[p + 1]
  ELSE CHOOSE i \in 0..(n - 1) : NewPos(i, n) = p

\* result[newPos] = block[i] for every i.
PermuteBlock(block) ==
  Bytes(Len(block),
        [p \in 1..Len(block) |-> block[SourceOf(p - 1, Len(block)) + 1]])

MixBlock(block, key) ==
  Bytes(Len(block),
        [i \in 1..Len(block) |-> Xor(block[i], key[((i - 1) % Len(key)) + 1])])

\* expandedKey[i] = roundKey[i % len(roundKey)], BlockSize bytes.
ExpandKey(roundKey) ==
  Bytes(BlockSize,
        [i \in 1..BlockSize |-> roundKey[((i - 1) % Len(roundKey)) + 1]])

\* for each i, the first j with (j*5+7) % len == i: result[i] = block[j].
ReversePermuteBlock(block) ==
  Bytes(Len(block),
        [p \in 1..Len(block) |-> block[SourceOf(p - 1, Len(block)) + 1]])

\* "S-box is self-inverse": the same substitution again.
ReverseSubstituteBlock(block) == SubstituteBlock(block)

\* One round of EncryptBlock: substitute, permute, mix with the round key.
EncryptRound(ct, keys, round) ==
  LET roundKey == keys[(round % Len(keys)) + 1]
      s == SubstituteBlock(ct)
      p == PermuteBlock(s)
  IN  MixBlock(p, ExpandKey(roundKey))

EncryptBlock(block, keys) ==
  LET c == For(LAMBDA ct, round : EncryptRound(ct, keys, round), block, 0, Rounds - 1)
      expandedLastKey == ExpandKey(keys[Len(keys)])
  IN  XorSeq(c, expandedLastKey)

\* One round of DecryptBlock: mix with the round key, reverse permute,
\* reverse substitute.
DecryptRound(pt, keys, round) ==
  LET roundKey == keys[(round % Len(keys)) + 1]
      m == MixBlock(pt, ExpandKey(roundKey))
      p == ReversePermuteBlock(m)
  IN  ReverseSubstituteBlock(p)

DecryptBlock(ciphertext, keys) ==
  LET expandedLastKey == ExpandKey(keys[Len(keys)])
      x == XorSeq(ciphertext, expandedLastKey)
  IN  \* for round := Rounds - 1; round >= 0; round--
      For(LAMBDA pt, k : DecryptRound(pt, keys, Rounds - 1 - k), x, 0, Rounds - 1)

(***************************************************************************)
(* Key derivation, nonce and IV.                                           *)
(***************************************************************************)
RECURSIVE Decimal(_)
\* fmt.Sprintf("%d", n) for n >= 0, as ASCII bytes.
Decimal(n) == IF n < 10 THEN << 48 + n >> ELSE Decimal(n \div 10) \o << 48 + (n % 10) >>

\* []byte(fmt.Sprintf("key_%d", i))
KeyLabel(i) == << 107, 101, 121, 95 >> \o Decimal(i)

\* The eleven round keys; the caller has checked len(masterKey) == KeySize.
DeriveKeys(masterKey) ==
  Bytes(numKeys,
        [i \in 1..numKeys |-> SubSeq(SHA3_512(masterKey \o KeyLabel(i - 1)), 1, keySize)])

\* KDFNISTCompliance.DeriveKeysNISTSP80056A: key keyIndex is the first 16
\* bytes of SHA3-512 over the big-endian counter + keyIndex + 1, the master
\* key, the nonce and the shared secret.  The counter is a uint32; the sum is
\* taken here without its wrap-around, for counters below 2^31 - 11.
DeriveKeysNISTSP80056A(masterKey, nonce, sharedSecret, counter) ==
  Bytes(numKeys,
        [i \in 1..numKeys |->
           LET currentCounter == counter + i
               kdfInput == << (currentCounter \div 16777216) % 256,
                              (currentCounter \div 65536) % 256,
                              (currentCounter \div 256) % 256,
                              currentCounter % 256 >>
                             \o masterKey \o nonce \o sharedSecret
           IN  SubSeq(SHA3_512(kdfInput), 1, keySize)])

\* val := byte(entropy * 255) where entropy is digest[0] / 256.0; draws holds
\* the digest[0] of the NonceSize calls of the entropy source.
GenerateNonce(draws) ==
  Bytes(NonceSize, [i \in 1..NonceSize |-> (draws[i] * 255) \div 256])

DeriveIV(nonce, key) == SHA3_512(nonce \o key)

(***************************************************************************)
(* HMAC-SHA3-512.                                                          *)
(***************************************************************************)
\* copy(expandedKey, key) into a zeroed buffer of hmacBlockSize bytes (the
\* hash of the key when the key is longer than the block).
HmacExpandKey(key) ==
  LET src == IF Len(key) <= hmacBlockSize THEN key ELSE SHA3_512(key)
  IN  Bytes(hmacBlockSize,
            [i \in 1..hmacBlockSize |-> IF i <= Len(src) THEN src[i] ELSE 0])

ComputeHMAC(key, data) ==
  LET expandedKey == HmacExpandKey(key)
      ipad == Bytes(hmacBlockSize, [i \in 1..hmacBlockSize |-> Xor(expandedKey[i], ipadByte)])
      opad == Bytes(hmacBlockSize, [i \in 1..hmacBlockSize |-> Xor(expandedKey[i], opadByte)])
      innerDigest == SHA3_512(ipad \o data)
  IN  SHA3_512(opad \o innerDigest)

\* The table of a | b over the half-bytes: entry [a + 1][b + 1].
NibbleOr ==
  Bytes(16, [a \in 1..16 |-> Bytes(16, [b \in 1..16 |->
    LET bit(k) == IF (((a - 1) \div k) % 2) + (((b - 1) \div k) % 2) > 0 THEN k ELSE 0
    IN  bit(1) + bit(2) + bit(4) + bit(8)])])

\* Go's | on two bytes.
Or(a, b) ==
  16 * NibbleOr[(a \div 16) + 1][(b \div 16) + 1] + NibbleOr[(a % 16) + 1][(b % 16) + 1]

\* A faulty comparison loop: it stops at the first pair of bytes that differ.
CompareLoopEarlyExit(computed, tag) ==
  For(LAMBDA loop, i :
        IF loop.result # 0 THEN loop
        ELSE [result |-> Or(loop.result, Xor(computed[i], tag[i])),
              iterations |-> loop.iterations + 1],
      [result |-> 0, iterations |-> 0], 1, Len(computed))

\* for i := 0; i < len(computed); i++ { result |= int(computed[i] ^ tag[i]) }:
\* the accumulator the loop leaves and the iterations it ran.
CompareLoop(computed, tag) ==
  For(LAMBDA loop, i :
        [result |-> Or(loop.result, Xor(computed[i], tag[i])),
         iterations |-> loop.iterations + 1],
      [result |-> 0, iterations |-> 0], 1, Len(computed))

\* The accumulator after the comparison loop.
OrAccumulate(computed, tag) == CompareLoop(computed, tag).result

\* A faulty VerifyHMAC: the loop stops one byte short of the tag's end.
VerifyHMACShort(key, data, tag) ==
  LET computed == ComputeHMAC(key, data)
  IN  IF Len(computed) # Len(tag) THEN FALSE
      ELSE OrAccumulate(SubSeq(computed, 1, Len(computed) - 1),
                        SubSeq(tag, 1, Len(tag) - 1)) = 0

VerifyHMAC(key, data, tag) ==
  LET computed == ComputeHMAC(key, data)
  IN  IF Len(computed) # Len(tag) THEN FALSE
      ELSE OrAccumulate(computed, tag) = 0

(***************************************************************************)
(* EncryptData and DecryptData.  A call's outcome is [data, err]; err = "" *)
(* is Go's nil error, and data is the empty string when the call returns   *)
(* nil.  A nil slice argument is NilSlice.                                 *)
(***************************************************************************)
NilSlice == << -1 >>

NoError == ""

Ok(data) == [data |-> data, err |-> NoError]

Fail(err) == [data |-> << >>, err |-> err]

ErrKeySize(n) == "invalid master key size: expected " \o ToString(KeySize)
                   \o ", got " \o ToString(n)

ErrNonceSize(n) == "invalid nonce size: expected " \o ToString(NonceSize)
                     \o ", got " \o ToString(n)

ErrTooShort(n) == "encrypted data too short: expected at least "
                    \o ToString(NonceSize + TagSize) \o " bytes, got " \o ToString(n)

ErrAuth == "authentication tag verification failed"

ErrEmpty == "decrypted plaintext is empty"

ErrPadding(n) == "invalid padding: " \o ToString(n)

ErrPaddingBytes == "invalid padding bytes"

\* A run-time panic of the Go program (index out of range).
ErrPanic == "panic: runtime error: index out of range"

\* paddedLength := ((len(plaintext) + BlockSize - 1) / BlockSize) * BlockSize
PaddedLength(n) == ((n + BlockSize - 1) \div BlockSize) * BlockSize

\* The padded buffer: the plaintext, then paddingLength bytes, each
\* byte(paddingLength).
Pad(plaintext) ==
  LET paddingLength == PaddedLength(Len(plaintext)) - Len(plaintext)
  IN  plaintext \o Repeat(paddingLength % 256, paddingLength)

RECURSIVE CBCEncrypt(_, _, _, _)
\* The CBC loop of EncryptData from 0-based offset i on.
CBCEncrypt(padded, keys, prevBlock, i) ==
  IF i >= Len(padded) THEN << >>
  ELSE LET xoredBlock == XorSeq(SubSeq(padded, i + 1, i + BlockSize), prevBlock)
           encryptedBlock == EncryptBlock(xoredBlock, keys)
       IN  Strict(encryptedBlock,
                  encryptedBlock \o CBCEncrypt(padded, keys, encryptedBlock, i + BlockSize))

\* A faulty EncryptData: the nonce is generated even when one was supplied.
EncryptDataFreshNonce(plaintext, masterKey, nonceArg, draws) ==
  IF Len(masterKey) # KeySize THEN Fail(ErrKeySize(Len(masterKey)))
  ELSE LET keys == DeriveKeys(masterKey)
           nonce == GenerateNonce(draws)
           iv == DeriveIV(nonce, masterKey)
           ciphertext == CBCEncrypt(Pad(plaintext), keys, iv, 0)
           tag == ComputeHMAC(keys[Len(keys)], nonce \o ciphertext)
       IN  Ok(ciphertext \o nonce \o tag)

\* draws: what the entropy source returns if the nonce has to be generated.
EncryptData(plaintext, masterKey, nonceArg, draws) ==
  IF Len(masterKey) # KeySize THEN Fail(ErrKeySize(Len(masterKey)))
  ELSE LET keys == DeriveKeys(masterKey)
           nonce == IF nonceArg = NilSlice THEN GenerateNonce(draws) ELSE nonceArg
       IN  IF Len(nonce) # NonceSize THEN Fail(ErrNonceSize(Len(nonce)))
           ELSE LET iv == DeriveIV(nonce, masterKey)
                    padded == Pad(plaintext)
                    ciphertext == CBCEncrypt(padded, keys, iv, 0)
                    authKey == keys[Len(keys)]
                    tag == ComputeHMAC(authKey, nonce \o ciphertext)
                IN  Ok(ciphertext \o nonce \o tag)

\* The nonce EncryptData uses for these arguments.
NonceUsed(nonceArg, draws) ==
  IF nonceArg = NilSlice THEN GenerateNonce(draws) ELSE nonceArg

\* ciphertextLength := len(encryptedData) - NonceSize - TagSize
CiphertextLength(encryptedData) == Len(encryptedData) - NonceSize - TagSize

ParseCiphertext(encryptedData) ==
  SubSeq(encryptedData, 1, CiphertextLength(encryptedData))

ParseNonce(encryptedData) ==
  SubSeq(encryptedData, CiphertextLength(encryptedData) + 1,
         CiphertextLength(encryptedData) + NonceSize)

ParseTag(encryptedData) ==
  SubSeq(encryptedData, CiphertextLength(encryptedData) + NonceSize + 1,
         Len(encryptedData))

\* One iteration of the CBC loop of DecryptData at 0-based offset i.  The
\* block is ciphertext[i : i+BlockSize], a slice of encryptedData's array,
\* so it may run past len(ciphertext) into the nonce and tag; the write
\* plaintext[i+j] panics as soon as i+j reaches len(plaintext).
DecryptIteration(encryptedData, plaintext, keys, iv, i) ==
  LET encryptedBlock == SubSeq(encryptedData, i + 1, i + BlockSize)
      decryptedBlock == DecryptBlock(encryptedBlock, keys)
      n == CiphertextLength(encryptedData)
  IN  [plaintext |-> Bytes(n, [k \in 1..n |->
                         IF k > i /\ k <= i + BlockSize
                         THEN Xor(decryptedBlock[k - i], iv[k - i])
                         ELSE plaintext[k]]),
       iv |-> encryptedBlock,
       panic |-> i + BlockSize > n]

\* The PKCS#7 check and strip at the end of DecryptData.
RemovePadding(plaintext) ==
  IF Len(plaintext) = 0 THEN Fail(ErrEmpty)
  ELSE LET paddingLength == plaintext[Len(plaintext)]
       IN  IF paddingLength > BlockSize \/ paddingLength = 0
           THEN Fail(ErrPadding(paddingLength))
           ELSE IF \E i \in (Len(plaintext) - paddingLength + 1)..Len(plaintext) :
                     plaintext[i] # paddingLength
                THEN Fail(ErrPaddingBytes)
                ELSE Ok(SubSeq(plaintext, 1, Len(plaintext) - paddingLength))

RECURSIVE CBCDecrypt(_, _, _, _, _)
\* The CBC loop of DecryptData from offset i on, then the padding removal.
CBCDecrypt(encryptedData, plaintext, keys, iv, i) ==
  IF i >= CiphertextLength(encryptedData) THEN RemovePadding(plaintext)
  ELSE LET it == DecryptIteration(encryptedData, plaintext, keys, iv, i)
       IN  IF it.panic THEN Fail(ErrPanic)
           ELSE Strict(it.plaintext,
                       CBCDecrypt(encryptedData, it.plaintext, keys, it.iv, i + BlockSize))

DecryptData(encryptedData, masterKey) ==
  IF Len(masterKey) # KeySize THEN Fail(ErrKeySize(Len(masterKey)))
  ELSE IF Len(encryptedData) < NonceSize + TagSize THEN Fail(ErrTooShort(Len(encryptedData)))
  ELSE LET ciphertext == ParseCiphertext(encryptedData)
           nonce == ParseNonce(encryptedData)
           receivedTag == ParseTag(encryptedData)
           keys == DeriveKeys(masterKey)
           authKey == keys[Len(keys)]
       IN  IF ~VerifyHMAC(authKey, nonce \o ciphertext, receivedTag) THEN Fail(ErrAuth)
           ELSE CBCDecrypt(encryptedData, Repeat(0, Len(ciphertext)), keys,
                           DeriveIV(nonce, masterKey), 0)

(***************************************************************************)
(* The state.  Part I follows one EncryptData call and then one            *)
(* DecryptData call on what the caller hands back (the frame itself, the   *)
(* frame with one bit flipped, a shortened frame, or a frame re-sealed by  *)
(* a key holder around a ciphertext of another length), step by step.      *)
(* Part II is one KeyManager and the calls made on it.                     *)
(***************************************************************************)
VARIABLES
  pc,             \* "idle", "encrypted", "verify", "cbc", "done"
  encPlaintext,   \* EncryptData: plaintext, masterKey, the nonce used, the result
  encKey,
  encNonce,
  encResult,
  tamper,         \* how decData was made from encResult.data
  decData,        \* DecryptData: encryptedData, masterKey and the locals
  decKey,
  decCiphertext,
  decNonce,
  decTag,
  decKeys,
  decIV,
  decPlaintext,
  loopI,
  macCount,       \* HMAC computations of this DecryptData call so far
  blockCount,     \* DecryptBlock calls of this DecryptData call so far
  decResult

VARIABLES
  history,          \* km.history: version -> KeyEntry
  activeKey,        \* km.activeKey: the version of the entry it points to
  currentVersion,   \* km.currentVersion
  policy,           \* km.policy
  lastRotationTime, \* km.lastRotationTime, in hours
  heap,             \* the arrays behind the key slices handed to the manager
  now,              \* the clock, in hours since NewKeyManager
  scheduler,        \* TRUE while the rotationScheduler goroutine runs
  sweepKey,         \* checkRotationNeeded: the activeKey it read; 0 between sweeps,
                    \* SweepLocked while it holds the read lock
  auditLog,         \* the audit records the last step wrote
  kmErr             \* the error the last step returned (NoError if it returned none)

VARIABLES
  held,             \* the key slice a caller of the manager keeps: the array it
                    \* points to and the bytes the caller read from it
  hsm,              \* the HSMIntegration: config, status, keyMaterial, auditLog
  hsmMu,            \* h.mu: "free", "Lock" or "RLock"
  hsmPc,            \* "none" before NewHSMIntegration, "ready" between calls,
                    \* "LogAudit" while a call waits for h.mu there
  klmHsm,           \* klm.hsm: "nil" or "hsm"; "none" before the manager exists
  lcKeys,           \* klm.keys: keyID -> KeyLifecycle
  lcNow,            \* the clock of Part III, in days
  lcRet,            \* what the last call of Part III returned
  c3Enc,            \* cipher.EncryptionCounter
  c3Auth,           \* cipher.AuthCounter
  c3Results,        \* the results EncryptBlockSHA3 has returned, in order
  c3Ret             \* the last call of Part IV and what it returned

aeadVars == << pc, encPlaintext, encKey, encNonce, encResult, tamper, decData,
               decKey, decCiphertext, decNonce, decTag, decKeys, decIV,
               decPlaintext, loopI, macCount, blockCount, decResult >>

kmVars == << history, activeKey, currentVersion, policy, lastRotationTime, heap,
             now, scheduler, sweepKey, auditLog, kmErr >>

lcVars == << hsm, hsmMu, hsmPc, klmHsm, lcKeys, lcNow, lcRet >>

c3Vars == << c3Enc, c3Auth, c3Results, c3Ret >>

vars == << aeadVars, kmVars, held, lcVars, c3Vars >>

\* What the steps of one part leave alone.
besideAEAD == << kmVars, held, lcVars, c3Vars >>

besideKM == << aeadVars, held, lcVars, c3Vars >>

besideLC == << aeadVars, kmVars, held, c3Vars >>

besideC3 == << aeadVars, kmVars, held, lcVars >>

\* No call has returned yet.
Pending == [data |-> << >>, err |-> "pending"]

Key1 == Bytes(KeySize, [i \in 1..KeySize |-> i - 1])

\* Key1 with its last byte XOR 0x01.
Key2 == Bytes(KeySize, [i \in 1..KeySize |-> IF i = KeySize THEN Xor(i - 1, 1) ELSE i - 1])

\* []byte("thirtytwobytemasterkeyfor512bit"), the key of main(): 31 bytes.
MainKey == << 116, 104, 105, 114, 116, 121, 116, 119, 111, 98, 121, 116, 101, 109, 97, 115, 116, 101, 114, 107, 101, 121, 102, 111, 114, 53, 49, 50, 98, 105, 116 >>

MasterKeys == {Key1, Key2, MainKey}

PlainLens ==
  {0, 1, 40} \cup UNION {{BlockSize * k - 1, BlockSize * k, BlockSize * k + 1} : k \in 1..MaxBlocks}

FillBytes == {0, 65}

Plaintexts == {Repeat(f, n) : f \in FillBytes, n \in PlainLens}

NonceArgs ==
  {NilSlice, Repeat(0, NonceSize), Bytes(NonceSize, [i \in 1..NonceSize |-> i - 1]),
   Repeat(0, NonceSize - 1)}

\* What the entropy source may return over the NonceSize calls.
EntropyDraws ==
  {Repeat(255, NonceSize), Bytes(NonceSize, [i \in 1..NonceSize |-> (37 * i) % 256])}

\* data with bit b (0-based, bit b % 8 of byte b / 8) flipped.
FlipBit(data, b) ==
  Bytes(Len(data), [i \in 1..Len(data) |->
          IF i = (b \div 8) + 1 THEN Xor(data[i], 2 ^ (b % 8)) ELSE data[i]])

\* The 0-based bytes at the two ends of the ciphertext, nonce and tag fields.
FieldEnds(frame) ==
  LET n == CiphertextLength(frame)
  IN  {0, n - 1, n, n + NonceSize - 1, n + NonceSize, Len(frame) - 1} \cap 0..(Len(frame) - 1)

\* The bits the model flips: all eight of each field's first and last byte.
TamperBits(frame) == {8 * q + k : q \in FieldEnds(frame), k \in 0..7}

\* A frame whose tag a key holder computed over nonce || ct.
Seal(ct, n, key) == ct \o n \o ComputeHMAC(DeriveKeys(key)[numKeys], n \o ct)

\* What the caller may hand to DecryptData after EncryptData returned frame.
DecryptInputs(frame, key) ==
  {[kind |-> "frame", bit |-> -1, data |-> frame]}
    \cup {[kind |-> "bitflip", bit |-> b, data |-> FlipBit(frame, b)] : b \in TamperBits(frame)}
    \cup {[kind |-> "cut", bit |-> -1, data |-> SubSeq(frame, 1, NonceSize + TagSize - 1)],
          [kind |-> "cut", bit |-> -1, data |-> SubSeq(frame, 2, Len(frame))]}
    \cup {[kind |-> "resealed", bit |-> -1,
           data |-> Seal(ParseCiphertext(frame) \o << 0 >>, ParseNonce(frame), key)]}

NoTamper == [kind |-> "none", bit |-> -1]

AEADInit ==
  /\ pc = "idle"
  /\ encPlaintext = << >>
  /\ encKey = << >>
  /\ encNonce = << >>
  /\ encResult = Pending
  /\ tamper = NoTamper
  /\ decData = << >>
  /\ decKey = << >>
  /\ decCiphertext = << >>
  /\ decNonce = << >>
  /\ decTag = << >>
  /\ decKeys = << >>
  /\ decIV = << >>
  /\ decPlaintext = << >>
  /\ loopI = 0
  /\ macCount = 0
  /\ blockCount = 0
  /\ decResult = Pending

DecryptIdle ==
  /\ tamper' = NoTamper
  /\ decData' = << >>
  /\ decKey' = << >>
  /\ decCiphertext' = << >>
  /\ decNonce' = << >>
  /\ decTag' = << >>
  /\ decKeys' = << >>
  /\ decIV' = << >>
  /\ decPlaintext' = << >>
  /\ loopI' = 0
  /\ macCount' = 0
  /\ blockCount' = 0
  /\ decResult' = Pending

\* EncryptData(plaintext, masterKey, nonce), the whole call.
EncryptCall ==
  /\ pc = "idle"
  /\ \E p \in Plaintexts, k \in MasterKeys, n \in NonceArgs :
       \E d \in IF n = NilSlice THEN EntropyDraws ELSE {Repeat(0, NonceSize)} :
         /\ encPlaintext' = p
         /\ encKey' = k
         /\ encNonce' = NonceUsed(n, d)
         /\ encResult' = EncryptData(p, k, n, d)
  /\ pc' = "encrypted"
  /\ DecryptIdle
  /\ UNCHANGED besideAEAD

\* DecryptData up to the key derivation: the two length checks and the
\* extraction of the three fields.
DecryptCall ==
  /\ pc = "encrypted"
  /\ encResult.err = NoError
  /\ \E k \in MasterKeys :
       LET derived == DeriveKeys(k)
       IN  \E in \in DecryptInputs(encResult.data, encKey) :
             /\ in.kind # "frame" => k = encKey
             /\ tamper' = [kind |-> in.kind, bit |-> in.bit]
             /\ decData' = in.data
             /\ decKey' = k
             /\ IF Len(k) # KeySize
                THEN /\ decResult' = Fail(ErrKeySize(Len(k)))
                     /\ pc' = "done"
                     /\ UNCHANGED << decCiphertext, decNonce, decTag, decKeys >>
                ELSE IF Len(in.data) < NonceSize + TagSize
                THEN /\ decResult' = Fail(ErrTooShort(Len(in.data)))
                     /\ pc' = "done"
                     /\ UNCHANGED << decCiphertext, decNonce, decTag, decKeys >>
                ELSE /\ decCiphertext' = ParseCiphertext(in.data)
                     /\ decNonce' = ParseNonce(in.data)
                     /\ decTag' = ParseTag(in.data)
                     /\ decKeys' = derived
                     /\ pc' = "verify"
                     /\ UNCHANGED decResult
  /\ UNCHANGED << encPlaintext, encKey, encNonce, encResult, decIV, decPlaintext, loopI,
                  macCount, blockCount >>
  /\ UNCHANGED besideAEAD

\* A faulty DecryptVerify: the tag is computed but the result of the
\* comparison is ignored.
DecryptVerifyIgnored ==
  /\ pc = "verify"
  /\ macCount' = macCount + 2
  /\ decIV' = DeriveIV(decNonce, decKey)
  /\ decPlaintext' = Repeat(0, Len(decCiphertext))
  /\ pc' = "cbc"
  /\ UNCHANGED << encPlaintext, encKey, encNonce, encResult, tamper, decData,
                  decKey, decCiphertext, decNonce, decTag, decKeys, loopI, blockCount,
                  decResult >>
  /\ UNCHANGED besideAEAD

\* The tag check (expectedTag is computed, then VerifyHMAC computes it
\* again), and on a match the IV and the plaintext buffer.
DecryptVerify ==
  /\ pc = "verify"
  /\ macCount' = macCount + 2
  /\ IF ~VerifyHMAC(decKeys[Len(decKeys)], decNonce \o decCiphertext, decTag)
     THEN /\ decResult' = Fail(ErrAuth)
          /\ pc' = "done"
          /\ UNCHANGED << decIV, decPlaintext >>
     ELSE /\ decIV' = DeriveIV(decNonce, decKey)
          /\ decPlaintext' = Repeat(0, Len(decCiphertext))
          /\ pc' = "cbc"
          /\ UNCHANGED decResult
  /\ UNCHANGED << encPlaintext, encKey, encNonce, encResult, tamper, decData,
                  decKey, decCiphertext, decNonce, decTag, decKeys, loopI, blockCount >>
  /\ UNCHANGED besideAEAD

\* One iteration of the CBC loop.
DecryptLoop ==
  /\ pc = "cbc"
  /\ loopI < Len(decCiphertext)
  /\ LET it == DecryptIteration(decData, decPlaintext, decKeys, decIV, loopI)
     IN  /\ blockCount' = blockCount + 1
         /\ IF it.panic
            THEN /\ decResult' = Fail(ErrPanic)
                 /\ pc' = "done"
                 /\ UNCHANGED << decIV, decPlaintext, loopI >>
            ELSE /\ decPlaintext' = it.plaintext
                 /\ decIV' = it.iv
                 /\ loopI' = loopI + BlockSize
                 /\ UNCHANGED << pc, decResult >>
  /\ UNCHANGED << encPlaintext, encKey, encNonce, encResult, tamper, decData,
                  decKey, decCiphertext, decNonce, decTag, decKeys, macCount >>
  /\ UNCHANGED besideAEAD

\* The loop is over: the padding check, and the return.
DecryptReturn ==
  /\ pc = "cbc"
  /\ loopI >= Len(decCiphertext)
  /\ decResult' = RemovePadding(decPlaintext)
  /\ pc' = "done"
  /\ UNCHANGED << encPlaintext, encKey, encNonce, encResult, tamper, decData,
                  decKey, decCiphertext, decNonce, decTag, decKeys, decIV,
                  decPlaintext, loopI, macCount, blockCount >>
  /\ UNCHANGED besideAEAD

\* The caller is done with the results.
Forget ==
  /\ pc \in {"encrypted", "done"}
  /\ pc = "encrypted" => encResult.err # NoError
  /\ pc' = "idle"
  /\ encPlaintext' = << >>
  /\ encKey' = << >>
  /\ encNonce' = << >>
  /\ encResult' = Pending
  /\ DecryptIdle
  /\ UNCHANGED besideAEAD

AEADNext ==
  \/ EncryptCall
  \/ DecryptCall
  \/ DecryptVerify
  \/ DecryptLoop
  \/ DecryptReturn
  \/ Forget

(***************************************************************************)
(* Part II: the KeyManager of key-rotation.go.                             *)
(***************************************************************************)
KeyStateActive == "active"

KeyStateRotated == "rotated"

KeyStateArchived == "archived"

\* The zero time.Time of a timestamp that was never set.
ZeroTime == 0 - 1

\* A nil Material, and the nil activeKey a sweep has not read yet.
NilRef == 0

\* The clock counts hours; AddDate(0, 0, d) and d*24 are both d days.
HoursPerDay == 24

MaxVersion == 3

MaxNow == 48

MaxCount == 1

HexDigit(n) == IF n < 10 THEN 48 + n ELSE 87 + n

\* fmt.Sprintf("%x", bytes), as ASCII bytes.
Hex(bytes) ==
  Bytes(2 * Len(bytes), [i \in 1..(2 * Len(bytes)) |->
          LET b == bytes[(i + 1) \div 2]
          IN  HexDigit(IF i % 2 = 1 THEN b \div 16 ELSE b % 16)])

hashKey(key) == SubSeq(Hex(SHA3_512(key)), 1, 32)

KeyRotationPolicy(enabled, retention, minAge, method, passes) ==
  [Enabled |-> enabled, IntervalDays |-> 1, RetentionCycles |-> retention,
   MaxKeyAgeDays |-> 2, MinKeyAgeDays |-> minAge,
   DestructionMethod |-> method, DestructionPasses |-> passes]

\* The policies a manager is constructed with; NewKeyManager checks none of
\* the fields.
InitialPolicies ==
  {KeyRotationPolicy(TRUE, 2, 1, "random", 2),
   KeyRotationPolicy(FALSE, 1, 0, "zero", 1),
   KeyRotationPolicy(FALSE, 0, 0, "zero", 1)}

\* The arguments of UpdateRotationPolicy: valid policies, one with
\* MinKeyAgeDays above IntervalDays, and one failing each check.
PolicyUpdates ==
  {KeyRotationPolicy(FALSE, 1, 0, "zero", 1),
   KeyRotationPolicy(TRUE, 2, 2, "overwrite", 1),
   [KeyRotationPolicy(TRUE, 2, 0, "zero", 1) EXCEPT !.IntervalDays = 0],
   [KeyRotationPolicy(TRUE, 2, 0, "zero", 1) EXCEPT !.MaxKeyAgeDays = 1],
   KeyRotationPolicy(FALSE, 0, 0, "zero", 1)}

\* The KeyEntry NewKeyManager and RotateKey build around the slice buf, whose
\* bytes are key, at time t.
KeyEntry(version, buf, key, t, pol) ==
  [Version |-> version, State |-> KeyStateActive, CreatedAt |-> t,
   ActivatedAt |-> t, RotatedAt |-> ZeroTime, ArchivedAt |-> ZeroTime,
   KeyHash |-> hashKey(key), EncryptionCount |-> 0, DecryptionCount |-> 0,
   Material |-> buf, ExpiresAt |-> t + HoursPerDay * pol.MaxKeyAgeDays]

\* The bytes of entry.Material in the memory hp.
MaterialBytes(entry, hp) ==
  IF entry.Material = NilRef THEN << >> ELSE hp[entry.Material]

ErrInitialKeySize(n) == "invalid initial key size: expected " \o ToString(KeySize)
                          \o " bytes, got " \o ToString(n)

ErrNewKeySize(n) == "invalid new key size: expected " \o ToString(KeySize)
                      \o " bytes, got " \o ToString(n)

ErrMinAge(days) == "cannot rotate key before minimum age of " \o ToString(days) \o " days"

ErrNotFound(version) == "key version " \o ToString(version) \o " not found"

ErrNotAvailable(version, state) ==
  "key version " \o ToString(version) \o " is not available (state: " \o state \o ")"

ErrInterval == "rotation interval must be > 0"

ErrMaxAge == "max key age must be > rotation interval"

ErrRetention == "retention cycles must be >= 1"

ErrRestore(err) == "failed to decrypt backup: " \o err

ErrExpired == "active key has expired"

\* GetKeyByVersion on the manager whose map is hist and whose memory is hp.
GetKeyByVersionIn(hist, hp, version) ==
  IF version \notin DOMAIN hist THEN Fail(ErrNotFound(version))
  ELSE IF hist[version].State # KeyStateActive /\ hist[version].State # KeyStateRotated
  THEN Fail(ErrNotAvailable(version, hist[version].State))
  ELSE Ok(MaterialBytes(hist[version], hp))

GetKeyByVersion(version) == GetKeyByVersionIn(history, heap, version)

GetActiveKey ==
  IF now > history[activeKey].ExpiresAt THEN Fail(ErrExpired)
  ELSE Ok(MaterialBytes(history[activeKey], heap))

\* A faulty MarkRotated: the time is recorded, the state is left as it was.
MarkRotatedKeepsState(entry, t) == [entry EXCEPT !.RotatedAt = t]

\* RotateKey marks the old key: State and RotatedAt of km.activeKey.
MarkRotated(entry, t) == [entry EXCEPT !.State = KeyStateRotated, !.RotatedAt = t]

\* []byte(fmt.Sprintf("pass_%d_%d", pass, nanos))
PassLabel(pass, nanos) ==
  << 112, 97, 115, 115, 95 >> \o Decimal(pass) \o << 95 >> \o Decimal(nanos)

\* One overwrite pass: Material[i] ^= pattern[i % len(pattern)].
ErasePass(material, pass, nanos) ==
  LET pattern == SHA3_256(PassLabel(pass, nanos))
  IN  Bytes(Len(material), [i \in 1..Len(material) |->
              Xor(material[i], pattern[((i - 1) % Len(pattern)) + 1])])

\* What securelyEraseKey leaves in the array behind entry.Material; clock
\* holds the time.Now().UnixNano() of each pass.
Overwrite(material, pol, clock) ==
  IF pol.DestructionMethod = "zero" THEN Repeat(0, Len(material))
  ELSE IF pol.DestructionMethod \in {"random", "overwrite"}
  THEN For(LAMBDA m, pass : ErasePass(m, pass, clock[pass + 1]),
           material, 0, pol.DestructionPasses - 1)
  ELSE material

\* A faulty securelyEraseKey: the array is overwritten, entry.Material keeps
\* pointing to it.
securelyEraseKeyKeepsSlice(entry, hp, pol, clock) ==
  [entry |-> entry,
   heap |-> IF entry.Material = NilRef THEN hp
            ELSE [hp EXCEPT ![entry.Material] = Overwrite(@, pol, clock)]]

\* securelyEraseKey(entry): the overwrite, then entry.Material = nil.
securelyEraseKey(entry, hp, pol, clock) ==
  [entry |-> [entry EXCEPT !.Material = NilRef],
   heap |-> IF entry.Material = NilRef THEN hp
            ELSE [hp EXCEPT ![entry.Material] = Overwrite(@, pol, clock)]]

\* The readings of the nanosecond clock the model draws from.
UnixNanos == {7, 8}

\* The clock readings of one securelyEraseKey call: one per pass that reads
\* it, never going back.
ClockReadings(pol) ==
  IF pol.DestructionMethod \in {"random", "overwrite"} /\ pol.DestructionPasses > 0
  THEN {c \in [1..pol.DestructionPasses -> UnixNanos] :
          \A i \in 1..(pol.DestructionPasses - 1) : c[i] <= c[i + 1]}
  ELSE {<< >>}

\* activeCount of archiveOldKeys.
ActiveCount(hist) ==
  Cardinality({v \in DOMAIN hist :
                 hist[v].State = KeyStateActive \/ hist[v].State = KeyStateRotated})

RotatedVersions(hist) == {v \in DOMAIN hist : hist[v].State = KeyStateRotated}

\* How many entries the second loop of archiveOldKeys archives.
ArchiveCount(hist, pol) ==
  IF ActiveCount(hist) > pol.RetentionCycles
  THEN LET keysToArchive == ActiveCount(hist) - pol.RetentionCycles
           rotated == Cardinality(RotatedVersions(hist))
       IN  IF keysToArchive < rotated THEN keysToArchive ELSE rotated
  ELSE 0

\* The Rotated versions the range over the map can archive, in the order it
\* meets them: Go leaves the iteration order of a map unspecified.
ArchiveOrders(hist, pol) ==
  LET n == ArchiveCount(hist, pol)
  IN  IF n = 0 THEN {<< >>}
      ELSE {o \in [1..n -> RotatedVersions(hist)] :
              \A a, b \in 1..n : a # b => o[a] # o[b]}

\* archiveOldKeys at time t, the range meeting the versions of order first,
\* clocks[k] being read while order[k] is erased.
archiveOldKeys(hist, hp, pol, t, order, clocks) ==
  For(LAMBDA st, k :
        LET version == order[k]
            entry == [st.history[version] EXCEPT !.State = KeyStateArchived,
                                                  !.ArchivedAt = t]
            erased == securelyEraseKey(entry, st.heap, pol, clocks[k])
        IN  [history |-> [st.history EXCEPT ![version] = erased.entry],
             heap |-> erased.heap,
             log |-> Append(st.log, << "KEY_ARCHIVED", version >>)],
      [history |-> hist, heap |-> hp, log |-> << >>], 1, Len(order))

(***************************************************************************)
(* Part II, the calls.  The arguments.                                     *)
(***************************************************************************)
InitialKeys == {Key1}

\* The key the caller generates for version v.
FreshKey(v) == Bytes(KeySize, [i \in 1..KeySize |-> (16 * v + i) % 256])

\* newKey of a RotateKey call that would create version v: a fresh key of
\* KeySize bytes, or the 31-byte key main() passes.
NewKeys(v) == {FreshKey(v), MainKey}

\* The key the backups are wrapped under.
BackupWrapKey == Bytes(KeySize, [i \in 1..KeySize |-> 255 - i])

\* EncryptData(key, backupKey, nil) of the known keys, computed once.
BackupTable ==
  {[key |-> k, backupKey |-> BackupWrapKey, draws |-> d,
    out |-> EncryptData(k, BackupWrapKey, NilSlice, d)] :
     k \in InitialKeys \cup {FreshKey(v) : v \in 2..MaxVersion}, d \in {Repeat(255, NonceSize)}}

\* BackupKey's EncryptData call.
EncryptBackup(key, backupKey, draws) ==
  IF \E r \in BackupTable : r.key = key /\ r.backupKey = backupKey /\ r.draws = draws
  THEN (CHOOSE r \in BackupTable :
          r.key = key /\ r.backupKey = backupKey /\ r.draws = draws).out
  ELSE EncryptData(key, backupKey, NilSlice, draws)

\* backupData of RestoreKey: the backup of the initial key, and a frame cut
\* short.
BackupFrames ==
  {r.out.data : r \in {q \in BackupTable : q.key \in InitialKeys /\ q.out.err = NoError}}
    \cup {Repeat(0, NonceSize + TagSize - 1)}

\* The arguments of the RestoreKey calls, each with what its DecryptData call
\* returns.
RestoreCalls ==
  {[backupData |-> f, backupKey |-> k, key |-> DecryptData(f, k)] :
     f \in BackupFrames, k \in {BackupWrapKey}}

\* The steps the clock makes, in hours.
TickSteps == {24}

\* The version argument of BackupKey and IncrementDecryptionCount: the
\* oldest version, and one that does not exist.
VersionArgs(cv) == {1, cv + 1}

\* NewKeyManager(initialKey, pol) returned a manager (the key has KeySize
\* bytes and the audit log could be opened).
NewKeyManager(initialKey, pol) ==
  /\ Len(initialKey) = KeySize
  /\ history = << KeyEntry(1, 1, initialKey, 0, pol) >>
  /\ activeKey = 1
  /\ currentVersion = 1
  /\ policy = pol
  /\ lastRotationTime = 0
  /\ heap = << initialKey >>
  /\ now = 0
  /\ scheduler = pol.Enabled
  /\ sweepKey = NilRef
  /\ auditLog = << << "KEY_CREATED", 1 >> >>
  /\ kmErr = NoError

KMInit == \E k \in InitialKeys, pol \in InitialPolicies : NewKeyManager(k, pol)

\* The value of sweepKey while checkRotationNeeded holds km.mu.RLock() and has
\* not read km.activeKey yet.
SweepLocked == 0 - 1

\* km.mu is held for reading. The only reader that keeps the lock over a step
\* is checkRotationNeeded; km.mu.Lock() returns only once no reader holds it.
muReadLocked == sweepKey = SweepLocked

\* A call that failed: the error, and nothing else changed.
Failed(err) ==
  /\ kmErr' = err
  /\ auditLog' = << >>
  /\ UNCHANGED << history, activeKey, currentVersion, policy, lastRotationTime,
                  heap, now, scheduler, sweepKey >>

\* A faulty age check: no rotation is ever too soon.
NeverTooSoon == FALSE

\* RotateKey's check of the minimum key age:
\* time.Since(km.lastRotationTime).Hours() < float64(km.policy.MinKeyAgeDays*24).
TooSoon == now - lastRotationTime < policy.MinKeyAgeDays * HoursPerDay

\* RotateKey(newKey), from the size check to the return, archiveOldKeys
\* included; the write lock is held from the age check on.
RotateKey(newKey) ==
  IF Len(newKey) # KeySize THEN Failed(ErrNewKeySize(Len(newKey)))
  ELSE IF muReadLocked THEN FALSE
  ELSE IF TooSoon
  THEN Failed(ErrMinAge(policy.MinKeyAgeDays))
  ELSE /\ currentVersion < MaxVersion
       /\ LET version == currentVersion + 1
              hp == Append(heap, newKey)
              hist == Append([history EXCEPT ![activeKey] = MarkRotated(@, now)],
                             KeyEntry(version, Len(hp), newKey, now, policy))
          IN  \E order \in ArchiveOrders(hist, policy) :
                \E clocks \in [1..Len(order) -> ClockReadings(policy)] :
                  LET archived == archiveOldKeys(hist, hp, policy, now, order, clocks)
                  IN  /\ history' = archived.history
                      /\ heap' = archived.heap
                      /\ auditLog' = << << "KEY_ROTATED", activeKey >> >> \o archived.log
                                       \o << << "KEY_ROTATED_NEW", version >> >>
       /\ currentVersion' = currentVersion + 1
       /\ activeKey' = currentVersion + 1
       /\ lastRotationTime' = now
       /\ kmErr' = NoError
       /\ UNCHANGED << policy, now, scheduler, sweepKey >>

RotateKeyCall ==
  /\ \E newKey \in NewKeys(currentVersion + 1) : RotateKey(newKey)
  /\ UNCHANGED besideKM

\* RestoreKey(backupData, backupKey): DecryptData, then RotateKey.
RestoreKey ==
  /\ \E call \in RestoreCalls :
       IF call.key.err # NoError THEN Failed(ErrRestore(call.key.err))
       ELSE RotateKey(call.key.data)
  /\ UNCHANGED besideKM

\* BackupKey(version, backupKey): GetKeyByVersion, then EncryptData with a
\* generated nonce.
BackupKey ==
  /\ \E version \in VersionArgs(currentVersion), backupKey \in {BackupWrapKey} :
       \E key \in {GetKeyByVersion(version)} :
         IF key.err # NoError THEN Failed(key.err)
         ELSE \E backupData \in {EncryptBackup(key.data, backupKey, Repeat(255, NonceSize))} :
                IF backupData.err # NoError THEN Failed(backupData.err)
                ELSE /\ auditLog' = << << "KEY_BACKUP", version, Len(backupData.data) >> >>
                     /\ kmErr' = NoError
                     /\ UNCHANGED << history, activeKey, currentVersion, policy,
                                     lastRotationTime, heap, now, scheduler, sweepKey >>
  /\ UNCHANGED besideKM

\* The caller keeps no key slice.
NoSlice == [ref |-> NilRef, seen |-> << >>]

\* A caller asks for a version's key and keeps the slice: GetKeyByVersion
\* returns entry.Material itself, not a copy.  The caller reads the bytes at
\* once (seen).
GetKeyByVersionCall ==
  /\ held = NoSlice
  /\ \E version \in VersionArgs(currentVersion) :
       \E key \in {GetKeyByVersion(version)} :
         /\ held' = IF key.err # NoError THEN held
                    ELSE [ref |-> history[version].Material, seen |-> key.data]
         /\ kmErr' = key.err
  /\ auditLog' = << >>
  /\ UNCHANGED << history, activeKey, currentVersion, policy, lastRotationTime,
                  heap, now, scheduler, sweepKey >>
  /\ UNCHANGED << aeadVars, lcVars, c3Vars >>

UpdateRotationPolicy ==
  /\ ~muReadLocked
  /\ \E pol \in PolicyUpdates :
       IF pol.IntervalDays <= 0 THEN Failed(ErrInterval)
       ELSE IF pol.MaxKeyAgeDays <= pol.IntervalDays THEN Failed(ErrMaxAge)
       ELSE IF pol.RetentionCycles < 1 THEN Failed(ErrRetention)
       ELSE /\ policy' = pol
            /\ auditLog' = << << "KEY_ROTATION_POLICY_UPDATED", pol.IntervalDays,
                                 pol.MaxKeyAgeDays, pol.RetentionCycles >> >>
            /\ kmErr' = NoError
            /\ UNCHANGED << history, activeKey, currentVersion, lastRotationTime,
                            heap, now, scheduler, sweepKey >>
  /\ UNCHANGED besideKM

\* The encryptions and decryptions counted so far, over all versions.
TotalCount(hist) ==
  For(LAMBDA sum, v : sum + hist[v].EncryptionCount + hist[v].DecryptionCount,
      0, 1, Len(hist))

IncrementEncryptionCount ==
  /\ ~muReadLocked
  /\ TotalCount(history) < MaxCount
  /\ history' = [history EXCEPT ![activeKey].EncryptionCount = @ + 1]
  /\ auditLog' = << >>
  /\ kmErr' = NoError
  /\ UNCHANGED << activeKey, currentVersion, policy, lastRotationTime, heap, now,
                  scheduler, sweepKey >>
  /\ UNCHANGED besideKM

IncrementDecryptionCount ==
  /\ ~muReadLocked
  /\ \E version \in VersionArgs(currentVersion) :
       IF version \notin DOMAIN history THEN Failed(ErrNotFound(version))
       ELSE /\ TotalCount(history) < MaxCount
            /\ history' = [history EXCEPT ![version].DecryptionCount = @ + 1]
            /\ auditLog' = << >>
            /\ kmErr' = NoError
            /\ UNCHANGED << activeKey, currentVersion, policy, lastRotationTime,
                            heap, now, scheduler, sweepKey >>
  /\ UNCHANGED besideKM

\* checkRotationNeeded: km.mu.RLock(). The writers hold km.mu only within
\* one step, so the lock is free for readers between steps.
SweepLock ==
  /\ scheduler
  /\ sweepKey = NilRef
  /\ sweepKey' = SweepLocked
  /\ auditLog' = << >>
  /\ kmErr' = NoError
  /\ UNCHANGED << history, activeKey, currentVersion, policy, lastRotationTime,
                  heap, now, scheduler >>
  /\ UNCHANGED besideKM

\* checkRotationNeeded, under the read lock: activeKey := km.activeKey, then
\* km.mu.RUnlock().
SweepRead ==
  /\ muReadLocked
  /\ sweepKey' = activeKey
  /\ auditLog' = << >>
  /\ kmErr' = NoError
  /\ UNCHANGED << history, activeKey, currentVersion, policy, lastRotationTime,
                  heap, now, scheduler >>
  /\ UNCHANGED besideKM

\* A faulty sweep: instead of logging, it marks the key it read as rotated.
SweepCheckMarksRotated ==
  /\ sweepKey \notin {NilRef, SweepLocked}
  /\ history' = [history EXCEPT ![sweepKey] = MarkRotated(@, now)]
  /\ sweepKey' = NilRef
  /\ auditLog' = << >>
  /\ kmErr' = NoError
  /\ UNCHANGED << activeKey, currentVersion, policy, lastRotationTime, heap, now,
                  scheduler >>
  /\ UNCHANGED besideKM

\* checkRotationNeeded after the lock is released: the age of the key read,
\* km.policy, and the audit records.
SweepCheck ==
  /\ sweepKey \notin {NilRef, SweepLocked}
  /\ LET ageHours == now - history[sweepKey].CreatedAt
         maxAgeHours == policy.MaxKeyAgeDays * HoursPerDay
         rotationIntervalHours == policy.IntervalDays * HoursPerDay
         check == << "KEY_ROTATION_CHECK", ageHours, maxAgeHours, rotationIntervalHours >>
     IN  auditLog' =
           IF ageHours >= maxAgeHours
           THEN << check, << "KEY_ROTATION_NEEDED_MAX_AGE", ageHours >> >>
           ELSE IF ageHours >= rotationIntervalHours
           THEN << check, << "KEY_ROTATION_NEEDED_INTERVAL", ageHours >> >>
           ELSE << check >>
  /\ sweepKey' = NilRef
  /\ kmErr' = NoError
  /\ UNCHANGED << history, activeKey, currentVersion, policy, lastRotationTime,
                  heap, now, scheduler >>
  /\ UNCHANGED besideKM

\* Time passes.
Tick ==
  /\ \E d \in TickSteps : now + d <= MaxNow /\ now' = now + d
  /\ auditLog' = << >>
  /\ kmErr' = NoError
  /\ UNCHANGED << history, activeKey, currentVersion, policy, lastRotationTime,
                  heap, scheduler, sweepKey >>
  /\ UNCHANGED besideKM

KMNext ==
  \/ GetKeyByVersionCall
  \/ RotateKeyCall
  \/ RestoreKey
  \/ BackupKey
  \/ UpdateRotationPolicy
  \/ IncrementEncryptionCount
  \/ IncrementDecryptionCount
  \/ SweepLock
  \/ SweepRead
  \/ SweepCheck
  \/ Tick

(***************************************************************************)
(* The known-answer tests (kat-tests.go).                                  *)
(***************************************************************************)

\* seed = seed*1103515245 + 12345 on a uint32, the seed kept as its two
\* 16-bit halves so that no product leaves the 32 bits.
NextSeed(seed) ==
  LET low == seed.lo * 20077 + 12345
  IN  [hi |-> (((seed.hi * 20077) % 65536) + ((seed.lo * 16838) % 65536)
                 + (low \div 65536)) % 65536,
       lo |-> low % 65536]

\* byte(seed / 65536 % 256)
SeedByte(seed) == seed.hi % 256

\* The seeds of vector 5: 0x12345678, then one step per key byte and per
\* plaintext byte.
VectorFiveSeeds ==
  For(LAMBDA seeds, i : Append(seeds, NextSeed(seeds[Len(seeds)])),
      << [hi |-> 4660, lo |-> 22136] >>, 1, KeySize + BlockSize)

\* A KATVector; Ciphertext[i] = byte((i * cmul) % 256) and
\* MAC[i] = byte((i * mmul) % 256) for i = 0..63.
KATVector(id, keyBytes, plain, cmul, mmul) ==
  [ID |-> id, Key |-> keyBytes, Plaintext |-> plain,
   Ciphertext |-> Bytes(BlockSize, [i \in 1..BlockSize |-> ((i - 1) * cmul) % 256]),
   MAC |-> Bytes(TagSize, [i \in 1..TagSize |-> ((i - 1) * mmul) % 256])]

\* GenerateDefaultVectors: the five vectors of the suite.
GenerateDefaultVectors ==
  << KATVector("KAT_001", Repeat(0, KeySize), Repeat(0, BlockSize), 31, 47),
     KATVector("KAT_002", Bytes(KeySize, [i \in 1..KeySize |-> i - 1]),
               Bytes(BlockSize, [i \in 1..BlockSize |-> i - 1]), 61, 73),
     KATVector("KAT_003", Repeat(255, KeySize), Repeat(255, BlockSize), 83, 89),
     KATVector("KAT_004",
               Bytes(KeySize, [i \in 1..KeySize |-> IF (i - 1) % 2 = 0 THEN 170 ELSE 85]),
               Bytes(BlockSize, [i \in 1..BlockSize |-> IF (i - 1) % 2 = 0 THEN 170 ELSE 85]),
               97, 101),
     KATVector("KAT_005",
               Bytes(KeySize, [i \in 1..KeySize |-> SeedByte(VectorFiveSeeds[i + 1])]),
               Bytes(BlockSize,
                     [i \in 1..BlockSize |-> SeedByte(VectorFiveSeeds[KeySize + i + 1])]),
               103, 107) >>

\* Phase2Encryption.Encrypt of the suite: returns its input.
Phase2Encrypt(plain, keys) == plain

\* Phase3Authentication.ComputeHMAC of the suite: returns 64 zero bytes.
Phase3ComputeHMAC(data, keyBytes) == Repeat(0, TagSize)

\* KATTestSuite.VerifyVector: both comparison loops stop at the first
\* difference.
VerifyVector(vector) ==
  LET ciphertext == Phase2Encrypt(vector.Plaintext, Repeat(Repeat(0, keySize), numKeys))
      mac == Phase3ComputeHMAC(ciphertext, vector.Key)
      ciphertextMatch == \A i \in 1..BlockSize : ciphertext[i] = vector.Ciphertext[i]
      macMatch == \A i \in 1..TagSize : mac[i] = vector.MAC[i]
  IN  ciphertextMatch /\ macMatch

\* KATTestSuite.RunAllTests: the counters it leaves.
RunAllTests ==
  LET vectors == GenerateDefaultVectors
  IN  For(LAMBDA kat, i : IF VerifyVector(vectors[i])
                          THEN [kat EXCEPT !.passed = @ + 1]
                          ELSE [kat EXCEPT !.failed = @ + 1],
          [vectors |-> vectors, passed |-> 0, failed |-> 0], 1, Len(vectors))

\* KATTestSuite.GetComplianceStatus
GetComplianceStatus(kat) == kat.failed = 0 /\ Len(kat.vectors) > 0

\* InitializeKATOnStartup: the suite is built, run and asked for its status.
\* Nothing stores the result and no function of the repository calls it.
InitializeKATOnStartup == GetComplianceStatus(RunAllTests)

(***************************************************************************)
(* Part III: HSMIntegration (hsm-integration.go) and KeyLifecycleManager   *)
(* (key-lifecycle.go).  One goroutine makes the calls, so a call that      *)
(* blocks stops the program.  The clock counts days.                       *)
(***************************************************************************)
SupportedHSMTypes == {"thales", "yubihsm", "nitro", "softhsm"}

\* The HSMType of the configurations tried: the four the switch knows, and
\* one it does not.
HSMTypes == SupportedHSMTypes \cup {"pkcs11"}

\* The length of KeyMaterial and keyMaterial, [32]byte.
MaterialSize == 32

\* The HSMIntegration NewHSMIntegration allocates, before the switch.
HSMIntegration(hsmType, tamperSensor) ==
  [HSMType |-> hsmType, TamperSensor |-> tamperSensor, Online |-> FALSE,
   TamperDetected |-> FALSE, keyMaterial |-> Repeat(0, MaterialSize),
   auditLog |-> << >>]

\* A call on the HSM is where hsmPc says: "ready" when no call is running
\* (or none was made: "none"), "LogAudit" when the running call has reached
\* h.mu.Lock() of LogAudit.  hsmMu is "free", "Lock" or "RLock".
HSMReady(h) == [h |-> h, mu |-> "free", at |-> "ready"]

\* LogAudit, entered by a function that holds h.mu as mu: its h.mu.Lock()
\* returns only when nobody holds h.mu, and the caller does not release it
\* before LogAudit returns.
LogAuditWhileHolding(h, mu) == [h |-> h, mu |-> mu, at |-> "LogAudit"]

\* LogAudit with h.mu free: the entry is appended (event type, status,
\* operator).
LogAudit(h, eventType, status, operatorID) ==
  [h EXCEPT !.auditLog = Append(@, << eventType, status, operatorID >>)]

ErrHSMOffline == "HSM not online"

\* ImportKey(key): where the call is once it has returned or can go no
\* further, and the error it returned.
ImportKey(h, key) ==
  IF ~h.Online THEN [call |-> HSMReady(h), err |-> ErrHSMOffline]
  ELSE [call |-> LogAuditWhileHolding([h EXCEPT !.keyMaterial = key], "Lock"),
        err |-> NoError]

\* checkTamperSensors: "For now, return false (no tamper)".
checkTamperSensors == FALSE

\* DetectTamper with the sensors reporting tamperDetected: the flag is set,
\* then LogAudit is called with h.mu held; zeroizeAllKeys comes after it.
DetectTamperWith(h, tamperDetected) ==
  IF ~h.TamperSensor THEN [call |-> HSMReady(h), ret |-> FALSE]
  ELSE IF tamperDetected
  THEN [call |-> LogAuditWhileHolding([h EXCEPT !.TamperDetected = TRUE], "Lock"),
        ret |-> TRUE]
  ELSE [call |-> HSMReady(h), ret |-> FALSE]

VerifyHSMCompliance(h) ==
  IF ~h.Online THEN FALSE
  ELSE IF h.TamperDetected THEN FALSE
  ELSE IF Len(h.auditLog) = 0 THEN FALSE
  ELSE TRUE

\* KeyLifecycleState
StateGenerated == "Generated"

StateActivated == "Activated"

StateRotating == "Rotating"

StateDeactivated == "Deactivated"

StateDestroyed == "Destroyed"

\* time.Time{} in days before day 0 of the clock (January 1 of year 1, seen
\* from November 2026).
YearOne == 0 - 739923

\* The largest time.Duration (2^63 - 1 nanoseconds) in whole days.
MaxDuration == 106751

\* t.Sub(u): the difference, or the largest (smallest) Duration when it does
\* not fit.
Sub(t, u) ==
  IF t - u > MaxDuration THEN MaxDuration
  ELSE IF t - u < 0 - MaxDuration THEN 0 - MaxDuration
  ELSE t - u

\* klm.rotationInterval: 365 * 24 * time.Hour, in days.
rotationInterval == 365

\* The bounds: audit entries per key and entries of the HSM's log.
MaxTrail == 3

MaxAuditLog == 1

\* The instants, in days, at which the calls are made: the start, a day
\* later, and more than a year later.
LCDays == {0, 1, 366}

KeyIDs == {"prod-key-001"}

OperatorIDs == {"admin", "operator-2"}

\* What rand.Read fills the key material with.
RandomMaterial == {Repeat(17, MaterialSize), Repeat(34, MaterialSize)}

\* addAuditEntry: event type and operator appended to the trail.
addAuditEntry(keyLC, eventType, operatorID) ==
  [keyLC EXCEPT !.AuditTrail = Append(@, << eventType, operatorID >>)]

\* The KeyLifecycle GenerateKey allocates; the fields it does not set hold
\* their zero values.
KeyLifecycle(keyID, keyMaterial, t, operatorID) ==
  [KeyID |-> keyID, KeyMaterial |-> keyMaterial, Generated |-> t,
   Activated |-> YearOne, RotationDue |-> YearOne, Deactivated |-> YearOne,
   Destroyed |-> YearOne, State |-> StateGenerated, RotationCount |-> 0,
   Zeroized |-> FALSE, CreatedBy |-> operatorID, RotatedBy |-> "",
   DestroyedBy |-> "", AuditTrail |-> << >>]

ErrKeyExists(keyID) == "key " \o keyID \o " already exists"

ErrKeyNotFound(keyID) == "key " \o keyID \o " not found"

ErrImport(err) == "failed to import key to HSM: " \o err

ErrImportRotated(err) == "failed to import rotated key to HSM: " \o err

ErrNotGenerated == "key must be in Generated state to activate"

ErrNotActivated == "only activated keys can be rotated"

\* What the last call returned: the function, whether it returned at all, its
\* error, and the value of GetKeysNeedingRotation (ids) or of DetectTamper and
\* VerifyHSMCompliance (flag).
Returned(op, err, ids, flag) ==
  [op |-> op, returned |-> TRUE, err |-> err, ids |-> ids, flag |-> flag]

\* The call op is in LogAudit, waiting for h.mu.
Blocked(op) ==
  [op |-> op, returned |-> FALSE, err |-> NoError, ids |-> {}, flag |-> FALSE]

ReturnedErr(op, err) == Returned(op, err, {}, FALSE)

\* RotateKey on the record keyLC, from the state check on.  useHSM is
\* klm.hsm != nil and h the HSM behind it.  The result: the record as the
\* call leaves it, the error, and where the HSM call is.
RotateKeyOn(keyLC, useHSM, h, operatorID, newKeyMaterial, t) ==
  IF keyLC.State # StateActivated
  THEN [key |-> keyLC, err |-> ErrNotActivated, call |-> HSMReady(h)]
  ELSE LET oldKeyMaterial == keyLC.KeyMaterial
           updated == [keyLC EXCEPT !.KeyMaterial = newKeyMaterial,
                                    !.RotationCount = @ + 1,
                                    !.RotatedBy = operatorID,
                                    !.RotationDue = t + Sub(@, @)]
           import == IF useHSM THEN ImportKey(h, newKeyMaterial)
                     ELSE [call |-> HSMReady(h), err |-> NoError]
       IN  IF import.err # NoError
           THEN [key |-> [updated EXCEPT !.KeyMaterial = oldKeyMaterial],
                 err |-> ErrImportRotated(import.err), call |-> import.call]
           ELSE IF import.call.at # "ready"
           THEN [key |-> updated, err |-> NoError, call |-> import.call]
           ELSE [key |-> addAuditEntry(updated, "KEY_ROTATED", operatorID),
                 err |-> NoError, call |-> import.call]

\* The HSM call of an operation ended at call: the HSM's fields as it left
\* them.
HSMAfter(call) ==
  /\ hsm' = call.h
  /\ hsmMu' = call.mu
  /\ hsmPc' = call.at

NoHSM == HSMIntegration("", FALSE)

NoKeys == [k \in {} |-> 0]

LCInit ==
  /\ hsm = NoHSM
  /\ hsmMu = "free"
  /\ hsmPc = "none"
  /\ klmHsm = "none"
  /\ lcKeys = NoKeys
  /\ lcNow = 0
  /\ lcRet = ReturnedErr("main", NoError)

\* The goroutine is not stuck in a call.
Running == hsmPc # "LogAudit"

\* NewHSMIntegration(config): the initializer of a known type takes h.mu,
\* sets Online and calls LogAudit; an unknown type is only reported by
\* log.Printf and the HSM is returned offline.
NewHSMIntegration ==
  /\ hsmPc = "none"
  /\ \E hsmType \in HSMTypes, tamperSensor \in BOOLEAN :
       LET h == HSMIntegration(hsmType, tamperSensor)
       IN  IF hsmType \in SupportedHSMTypes
           THEN /\ HSMAfter(LogAuditWhileHolding([h EXCEPT !.Online = TRUE], "Lock"))
                /\ lcRet' = Blocked("NewHSMIntegration")
           ELSE /\ HSMAfter(HSMReady(h))
                /\ lcRet' = ReturnedErr("NewHSMIntegration", NoError)
  /\ UNCHANGED << klmHsm, lcKeys, lcNow >>
  /\ UNCHANGED besideLC

\* NewKeyLifecycleManager(hsm), with nil or with the HSM NewHSMIntegration
\* returned.
NewKeyLifecycleManager ==
  /\ Running
  /\ klmHsm = "none"
  /\ \E h \in {"nil"} \cup (IF hsmPc = "ready" THEN {"hsm"} ELSE {}) :
       klmHsm' = h
  /\ lcRet' = ReturnedErr("NewKeyLifecycleManager", NoError)
  /\ UNCHANGED << hsm, hsmMu, hsmPc, lcKeys, lcNow >>
  /\ UNCHANGED besideLC

\* A direct h.LogAudit call: h.mu is free, the entry is appended.
LogAuditCall ==
  /\ hsmPc = "ready"
  /\ Len(hsm.auditLog) < MaxAuditLog
  /\ \E operatorID \in OperatorIDs :
       hsm' = LogAudit(hsm, "OPERATOR_NOTE", "SUCCESS", operatorID)
  /\ lcRet' = ReturnedErr("LogAudit", NoError)
  /\ UNCHANGED << hsmMu, hsmPc, klmHsm, lcKeys, lcNow >>
  /\ UNCHANGED besideLC

\* A direct h.ImportKey call.
ImportKeyCall ==
  /\ hsmPc = "ready"
  /\ \E key \in RandomMaterial :
       LET import == ImportKey(hsm, key)
       IN  /\ HSMAfter(import.call)
           /\ lcRet' = IF import.call.at = "ready"
                       THEN ReturnedErr("ImportKey", import.err)
                       ELSE Blocked("ImportKey")
  /\ UNCHANGED << klmHsm, lcKeys, lcNow >>
  /\ UNCHANGED besideLC

\* h.ExportKey(): h.mu.RLock(), then LogAudit, whose h.mu.Lock() waits for
\* the reader to leave.
ExportKey ==
  /\ hsmPc = "ready"
  /\ HSMAfter(LogAuditWhileHolding(hsm, "RLock"))
  /\ lcRet' = Blocked("ExportKey")
  /\ UNCHANGED << klmHsm, lcKeys, lcNow >>
  /\ UNCHANGED besideLC

\* h.DetectTamper(), with the sensors as checkTamperSensors reads them.
DetectTamper ==
  /\ hsmPc = "ready"
  /\ LET detect == DetectTamperWith(hsm, checkTamperSensors)
     IN  /\ HSMAfter(detect.call)
         /\ lcRet' = IF detect.call.at = "ready"
                     THEN Returned("DetectTamper", NoError, {}, detect.ret)
                     ELSE Blocked("DetectTamper")
  /\ UNCHANGED << klmHsm, lcKeys, lcNow >>
  /\ UNCHANGED besideLC

VerifyHSMComplianceCall ==
  /\ hsmPc = "ready"
  /\ lcRet' = Returned("VerifyHSMCompliance", NoError, {}, VerifyHSMCompliance(hsm))
  /\ UNCHANGED << hsm, hsmMu, hsmPc, klmHsm, lcKeys, lcNow >>
  /\ UNCHANGED besideLC

\* A lifecycle call that leaves the HSM alone and returns: the keys and the
\* returned value.
LCReturn(keysAfter, ret) ==
  /\ lcKeys' = keysAfter
  /\ lcRet' = ret
  /\ UNCHANGED << hsm, hsmMu, hsmPc, klmHsm, lcNow >>

\* klm.keys[keyID] = keyLC
PutKey(keyID, keyLC) ==
  [k \in DOMAIN lcKeys \cup {keyID} |-> IF k = keyID THEN keyLC ELSE lcKeys[k]]

GenerateKey ==
  /\ Running
  /\ klmHsm # "none"
  /\ \E keyID \in KeyIDs, operatorID \in OperatorIDs, keyMaterial \in RandomMaterial :
       IF keyID \in DOMAIN lcKeys
       THEN LCReturn(lcKeys, ReturnedErr("GenerateKey", ErrKeyExists(keyID)))
       ELSE LET keyLC == KeyLifecycle(keyID, keyMaterial, lcNow, operatorID)
                import == IF klmHsm = "hsm" THEN ImportKey(hsm, keyMaterial)
                          ELSE [call |-> [h |-> hsm, mu |-> hsmMu, at |-> hsmPc],
                                err |-> NoError]
            IN  /\ HSMAfter(import.call)
                /\ UNCHANGED << klmHsm, lcNow >>
                /\ IF import.err # NoError
                   THEN /\ lcKeys' = lcKeys
                        /\ lcRet' = ReturnedErr("GenerateKey", ErrImport(import.err))
                   ELSE IF import.call.at = "LogAudit"
                   THEN /\ lcKeys' = lcKeys
                        /\ lcRet' = Blocked("GenerateKey")
                   ELSE /\ lcKeys' = PutKey(keyID, addAuditEntry(keyLC, "KEY_GENERATED",
                                                                 operatorID))
                        /\ lcRet' = ReturnedErr("GenerateKey", NoError)
  /\ UNCHANGED besideLC

\* The trail of every key has room for one more entry.
TrailRoom == \A k \in DOMAIN lcKeys : Len(lcKeys[k].AuditTrail) < MaxTrail

ActivateKey ==
  /\ Running
  /\ klmHsm # "none"
  /\ TrailRoom
  /\ \E keyID \in KeyIDs, operatorID \in OperatorIDs :
       IF keyID \notin DOMAIN lcKeys
       THEN LCReturn(lcKeys, ReturnedErr("ActivateKey", ErrKeyNotFound(keyID)))
       ELSE LET keyLC == lcKeys[keyID]
            IN  IF keyLC.State # StateGenerated
                THEN LCReturn(lcKeys, ReturnedErr("ActivateKey", ErrNotGenerated))
                ELSE LCReturn(
                       PutKey(keyID,
                              addAuditEntry(
                                [keyLC EXCEPT !.Activated = lcNow,
                                              !.RotationDue =
                                                 lcNow + Sub(keyLC.RotationDue,
                                                             keyLC.Generated),
                                              !.State = StateActivated],
                                "KEY_ACTIVATED", operatorID)),
                       ReturnedErr("ActivateKey", NoError))
  /\ UNCHANGED besideLC

RotateKeyLC ==
  /\ Running
  /\ klmHsm # "none"
  /\ TrailRoom
  /\ \E keyID \in KeyIDs, operatorID \in OperatorIDs, newKeyMaterial \in RandomMaterial :
       IF keyID \notin DOMAIN lcKeys
       THEN LCReturn(lcKeys, ReturnedErr("RotateKey", ErrKeyNotFound(keyID)))
       ELSE LET rotated == RotateKeyOn(lcKeys[keyID], klmHsm = "hsm", hsm, operatorID,
                                       newKeyMaterial, lcNow)
            IN  /\ lcKeys' = PutKey(keyID, rotated.key)
                /\ IF klmHsm = "hsm" /\ lcKeys[keyID].State = StateActivated
                   THEN HSMAfter(rotated.call)
                   ELSE UNCHANGED << hsm, hsmMu, hsmPc >>
                /\ lcRet' = IF rotated.call.at = "LogAudit" THEN Blocked("RotateKey")
                            ELSE ReturnedErr("RotateKey", rotated.err)
                /\ UNCHANGED << klmHsm, lcNow >>
  /\ UNCHANGED besideLC

DeactivateKey ==
  /\ Running
  /\ klmHsm # "none"
  /\ TrailRoom
  /\ \E keyID \in KeyIDs, operatorID \in OperatorIDs :
       IF keyID \notin DOMAIN lcKeys
       THEN LCReturn(lcKeys, ReturnedErr("DeactivateKey", ErrKeyNotFound(keyID)))
       ELSE LCReturn(
              PutKey(keyID,
                     addAuditEntry([lcKeys[keyID] EXCEPT !.Deactivated = lcNow,
                                                         !.State = StateDeactivated,
                                                         !.DestroyedBy = operatorID],
                                   "KEY_DEACTIVATED", operatorID)),
              ReturnedErr("DeactivateKey", NoError))
  /\ UNCHANGED besideLC

ZeroizeKey ==
  /\ Running
  /\ klmHsm # "none"
  /\ TrailRoom
  /\ \E keyID \in KeyIDs, operatorID \in OperatorIDs :
       IF keyID \notin DOMAIN lcKeys
       THEN LCReturn(lcKeys, ReturnedErr("ZeroizeKey", ErrKeyNotFound(keyID)))
       ELSE LCReturn(
              PutKey(keyID,
                     addAuditEntry([lcKeys[keyID] EXCEPT
                                      !.KeyMaterial = Repeat(0, MaterialSize),
                                      !.Destroyed = lcNow,
                                      !.State = StateDestroyed,
                                      !.Zeroized = TRUE],
                                   "KEY_ZEROIZED", operatorID)),
              ReturnedErr("ZeroizeKey", NoError))
  /\ UNCHANGED besideLC

\* The ids GetKeysNeedingRotation returns at time t.
KeysNeedingRotation(keysLC, t) ==
  {k \in DOMAIN keysLC : keysLC[k].State = StateActivated /\ t > keysLC[k].RotationDue}

GetKeysNeedingRotation ==
  /\ Running
  /\ klmHsm # "none"
  /\ LCReturn(lcKeys, Returned("GetKeysNeedingRotation", NoError,
                               KeysNeedingRotation(lcKeys, lcNow), FALSE))
  /\ UNCHANGED besideLC

\* Time passes to a later one of the instants at which calls are made.
LCTick ==
  /\ Running
  /\ \E t \in LCDays : t > lcNow /\ lcNow' = t
  /\ UNCHANGED << hsm, hsmMu, hsmPc, klmHsm, lcKeys, lcRet >>
  /\ UNCHANGED besideLC

LCNext ==
  \/ NewHSMIntegration
  \/ NewKeyLifecycleManager
  \/ LogAuditCall
  \/ ImportKeyCall
  \/ ExportKey
  \/ DetectTamper
  \/ VerifyHSMComplianceCall
  \/ GenerateKey
  \/ ActivateKey
  \/ RotateKeyLC
  \/ DeactivateKey
  \/ ZeroizeKey
  \/ GetKeysNeedingRotation
  \/ LCTick

(***************************************************************************)
(* Part IV: the counters of EAMSA512CipherSHA3 (phase3-sha3-updated.go).   *)
(* Every method holds cipher.mu from its first statement to its return,    *)
(* so each call is one step.                                               *)
(***************************************************************************)
\* The length of AuthKeyMaterial and of a block, [64]byte.
AuthKeySize == 64

\* cipher.AuthKeyMaterial, derived once by NewEAMSA512CipherSHA3.
AuthKeyMaterial == Repeat(90, AuthKeySize)

\* How many results EncryptBlockSHA3 hands out.
MaxResults == 4

\* byte(counter >> (uint(i%8)*8)) for a counter below 2^24.
CounterByte(counter, i) ==
  IF i % 8 = 0 THEN counter % 256
  ELSE IF i % 8 = 1 THEN (counter \div 256) % 256
  ELSE IF i % 8 = 2 THEN (counter \div 65536) % 256
  ELSE 0

\* keyBytes of ComputeMACHA3: the key the MAC of block number counter is
\* computed under.
MACKeyBytes(counter) ==
  Bytes(AuthKeySize, [i \in 1..AuthKeySize |->
          Xor(AuthKeyMaterial[i], CounterByte(counter, i - 1))])

\* The plaintext blocks the callers encrypt.
C3Blocks == {Repeat(1, AuthKeySize), Repeat(2, AuthKeySize)}

C3Init ==
  /\ c3Enc = 0
  /\ c3Auth = 0
  /\ c3Results = << >>
  /\ c3Ret = [op |-> "NewEAMSA512CipherSHA3"]

\* EncryptBlockSHA3(plaintext): the result carries the counter read at entry
\* and the MAC key made from it; both counters are incremented.
EncryptBlockSHA3 ==
  /\ Len(c3Results) < MaxResults
  /\ \E plaintext \in C3Blocks :
       c3Results' = Append(c3Results, [Counter |-> c3Enc, Plaintext |-> plaintext,
                                       MACKey |-> MACKeyBytes(c3Enc)])
  /\ c3Enc' = c3Enc + 1
  /\ c3Auth' = c3Auth + 1
  /\ c3Ret' = [op |-> "EncryptBlockSHA3"]
  /\ UNCHANGED besideC3

\* DecryptBlockSHA3 of one of the results: the MAC is recomputed under the
\* key of the counter passed in; no counter changes.
DecryptBlockSHA3 ==
  /\ \E k \in 1..Len(c3Results) :
       c3Ret' = [op |-> "DecryptBlockSHA3", counter |-> c3Results[k].Counter]
  /\ UNCHANGED << c3Enc, c3Auth, c3Results >>
  /\ UNCHANGED besideC3

GetStatistics ==
  /\ c3Ret' = [op |-> "GetStatistics", blocks_encrypted |-> c3Enc,
               macs_computed |-> c3Auth]
  /\ UNCHANGED << c3Enc, c3Auth, c3Results >>
  /\ UNCHANGED besideC3

ResetCounters ==
  /\ c3Enc' = 0
  /\ c3Auth' = 0
  /\ c3Ret' = [op |-> "ResetCounters"]
  /\ UNCHANGED c3Results
  /\ UNCHANGED besideC3

C3Next ==
  \/ EncryptBlockSHA3
  \/ DecryptBlockSHA3
  \/ GetStatistics
  \/ ResetCounters

\* The parts that are not running: a manager nobody calls, a caller without a
\* key slice, no HSM and no lifecycle manager, a cipher nobody calls.
IdleKM == NewKeyManager(Key1, KeyRotationPolicy(FALSE, 1, 0, "zero", 1))

IdleOthers == held = NoSlice /\ LCInit /\ C3Init

\* Part I runs alone.
InitAEAD == AEADInit /\ IdleKM /\ IdleOthers

SpecAEAD == InitAEAD /\ [][AEADNext]_vars

\* Part II runs with no EncryptData or DecryptData call of Part I in progress.
InitKM == AEADInit /\ KMInit /\ IdleOthers

SpecKM == InitKM /\ [][KMNext]_vars

\* Part III runs alone.
InitLC == AEADInit /\ IdleKM /\ held = NoSlice /\ LCInit /\ C3Init

SpecLC == InitLC /\ [][LCNext]_vars

\* Part IV runs alone.
InitC3 == AEADInit /\ IdleKM /\ held = NoSlice /\ C3Init /\ LCInit

SpecC3 == InitC3 /\ [][C3Next]_vars

(***************************************************************************)
(* Properties of Part I, checked under SpecAEAD.                           *)
(***************************************************************************)

\* C1: round trip.  When DecryptData is handed the frame EncryptData
\* returned, under the same key, it returns exactly the plaintext and no
\* error.
RoundTrip ==
  (pc = "done" /\ tamper.kind = "frame" /\ decKey = encKey)
    => decResult = Ok(encPlaintext)

\* C2: tamper detection.  When DecryptData is handed the frame with one bit
\* flipped (in the ciphertext, the nonce or the tag), under the same key, it
\* returns the authentication error and no plaintext.
TamperDetection ==
  (pc = "done" /\ tamper.kind = "bitflip") => decResult = Fail(ErrAuth)

\* A call on a frame with a flipped ciphertext bit has ended in the
\* authentication error.
TamperDetected ==
  /\ pc = "done"
  /\ tamper.kind = "bitflip"
  /\ tamper.bit \div 8 < CiphertextLength(decData)
  /\ decResult = Fail(ErrAuth)

\* C3: verify, then decrypt.  The IV is derived and a block is decrypted
\* only after the tag was computed and found equal to the HMAC over
\* nonce || ciphertext under the authentication key; a call that ends in the
\* authentication error has decrypted no block, derived no IV, and produced
\* and returned no plaintext byte.
VerifyThenDecrypt ==
  /\ (blockCount > 0 \/ decIV # << >>)
       => /\ macCount > 0
          /\ decTag = ComputeHMAC(decKeys[Len(decKeys)], decNonce \o decCiphertext)
  /\ (pc = "done" /\ decResult.err = ErrAuth)
       => /\ blockCount = 0
          /\ decIV = << >>
          /\ decPlaintext = << >>
          /\ decResult.data = << >>

\* A call whose tag matched has decrypted a block and returned.
DecryptedAfterVerify == pc = "done" /\ macCount > 0 /\ blockCount > 0

\* C4: failure indistinguishability.  A DecryptData call that fails at the
\* tag check or at the padding check returns one and the same error.
FailureIndistinguishable ==
  (pc = "done" /\ macCount > 0 /\ decResult.err \notin {NoError, ErrPanic})
    => decResult.err = ErrAuth

\* C5: frame validation.  An input shorter than NonceSize + TagSize, or whose
\* ciphertext part is empty or not a multiple of BlockSize, is rejected
\* before any HMAC or block computation: the call never reaches the tag
\* check or the CBC loop.
FrameValidation ==
  (/\ pc \in {"verify", "cbc", "done"}
   /\ Len(decKey) = KeySize
   /\ \/ Len(decData) < NonceSize + TagSize
      \/ CiphertextLength(decData) = 0
      \/ CiphertextLength(decData) % BlockSize # 0)
    => /\ pc = "done"
       /\ decResult.err # NoError
       /\ macCount = 0
       /\ blockCount = 0

\* C6: PKCS#7 padding is always applied.  The ciphertext of a plaintext of
\* L bytes has BlockSize * (L / BlockSize + 1) bytes, and decrypting the
\* frame of the empty plaintext returns the empty plaintext.
PaddingAlwaysApplied ==
  /\ (pc # "idle" /\ encResult.err = NoError)
       => CiphertextLength(encResult.data)
            = BlockSize * ((Len(encPlaintext) \div BlockSize) + 1)
  /\ (pc = "done" /\ tamper.kind = "frame" /\ decKey = encKey /\ Len(encPlaintext) = 0)
       => decResult = Ok(<< >>)

\* C7: frame layout.  A frame EncryptData returns is ciphertext || nonce ||
\* tag: the ciphertext length is a positive multiple of BlockSize, the
\* NonceSize bytes after it are the nonce used, the last TagSize bytes are
\* the tag; DecryptData takes the three fields from the same offsets.
FrameLayout ==
  /\ (pc # "idle" /\ encResult.err = NoError)
       => /\ CiphertextLength(encResult.data) > 0
          /\ CiphertextLength(encResult.data) % BlockSize = 0
          /\ ParseNonce(encResult.data) = encNonce
          /\ Len(ParseTag(encResult.data)) = TagSize
  /\ pc \in {"verify", "cbc"}
       => /\ decData = decCiphertext \o decNonce \o decTag
          /\ Len(decNonce) = NonceSize
          /\ Len(decTag) = TagSize

(***************************************************************************)
(* Properties of Part II, checked under SpecKM.                            *)
(***************************************************************************)

\* C8: exactly one Active version.  In every state of the manager one entry
\* of history is Active, and it is the entry activeKey points to.
ExactlyOneActive ==
  /\ activeKey \in DOMAIN history
  /\ history[activeKey].State = KeyStateActive
  /\ Cardinality({v \in DOMAIN history : history[v].State = KeyStateActive}) = 1

\* Two rotations have succeeded, a key has been archived, and the last call
\* failed.
RotatedTwiceThenFailed ==
  /\ currentVersion > 2
  /\ \E v \in DOMAIN history : history[v].State = KeyStateArchived
  /\ kmErr # NoError

\* C9: the rotation step.  A successful RotateKey adds exactly version
\* currentVersion + 1, Active and holding the KeySize bytes whose hash it
\* records, and makes it the active key; under a policy with
\* RetentionCycles >= 1 it leaves the version that was active in state
\* Rotated, and GetKeyByVersion still returns that version's key.
RotationStep ==
  [][currentVersion' # currentVersion
       => /\ currentVersion' = currentVersion + 1
          /\ DOMAIN history' = 1..currentVersion'
          /\ activeKey' = currentVersion'
          /\ history'[currentVersion'].State = KeyStateActive
          /\ Len(MaterialBytes(history'[currentVersion'], heap')) = KeySize
          /\ history'[currentVersion'].KeyHash
               = hashKey(MaterialBytes(history'[currentVersion'], heap'))
          /\ policy.RetentionCycles >= 1
               => /\ history'[activeKey].State = KeyStateRotated
                  /\ GetKeyByVersionIn(history', heap', activeKey)
                       = Ok(MaterialBytes(history[activeKey], heap))]_vars

\* C10: archiving takes the oldest.  No Archived version has a higher
\* version number than a version still Rotated.
ArchivesOldest ==
  \A a, r \in DOMAIN history :
    (history[a].State = KeyStateArchived /\ history[r].State = KeyStateRotated)
      => a < r

\* C11: no material after archival.  A version that is neither Active nor
\* Rotated holds no key material (its Material is nil) and GetKeyByVersion
\* returns the not-available error for it; GetKeyByVersion returns bytes only
\* for Active and Rotated versions, and a BackupKey call that succeeded was
\* made on such a version.
NoMaterialAfterArchival ==
  /\ \A v \in DOMAIN history :
       history[v].State \notin {KeyStateActive, KeyStateRotated}
         => /\ history[v].Material = NilRef
            /\ GetKeyByVersion(v) = Fail(ErrNotAvailable(v, history[v].State))
  /\ \A v \in 1..(currentVersion + 1) :
       GetKeyByVersion(v).err = NoError
         => /\ v \in DOMAIN history
            /\ history[v].State \in {KeyStateActive, KeyStateRotated}
            /\ history[v].Material # NilRef
  /\ \A k \in DOMAIN auditLog :
       auditLog[k][1] = "KEY_BACKUP"
         => history[auditLog[k][2]].State \in {KeyStateActive, KeyStateRotated}

\* BackupKey was called on an archived version and returned the error.
BackupOfArchivedRefused ==
  /\ history[1].State = KeyStateArchived
  /\ history[1].Material = NilRef
  /\ kmErr = ErrNotAvailable(1, KeyStateArchived)

\* C12: secure erase ends in zeros.  Once a version is Archived (its
\* material went through securelyEraseKey), every byte of the array that
\* held its material (heap[v]: the manager keeps the caller's slice of
\* version v) is zero.
EraseEndsInZeros ==
  \A v \in DOMAIN history :
    history[v].State = KeyStateArchived => heap[v] = Repeat(0, Len(heap[v]))

\* C13: the minimum-age gate.  A rotation succeeds only when the time since
\* the active version was activated has reached MinKeyAgeDays, and a
\* rotation that failed (too soon, wrong key length, or a backup RestoreKey
\* could not decrypt) leaves history, activeKey, currentVersion and
\* lastRotationTime as they were.
MinimumAgeGate ==
  [][/\ currentVersion' # currentVersion
          => now - history[activeKey].ActivatedAt >= policy.MinKeyAgeDays * HoursPerDay
     /\ kmErr' \in ({ErrMinAge(policy.MinKeyAgeDays)}
                      \cup {ErrNewKeySize(Len(k)) : k \in NewKeys(currentVersion + 1)}
                      \cup {ErrRestore(c.key.err) : c \in RestoreCalls})
          => UNCHANGED << history, activeKey, currentVersion, lastRotationTime >>]_vars

\* RotateKey was called before the minimum age and returned the error.
RotationRefusedTooSoon ==
  /\ policy.MinKeyAgeDays > 0
  /\ now - history[activeKey].ActivatedAt < policy.MinKeyAgeDays * HoursPerDay
  /\ kmErr = ErrMinAge(policy.MinKeyAgeDays)

\* C14: policy validation.  A policy UpdateRotationPolicy accepted (the step
\* wrote the KEY_ROTATION_POLICY_UPDATED record) satisfies
\* 0 < MinKeyAgeDays <= IntervalDays < MaxKeyAgeDays and RetentionCycles >= 1;
\* a call that returned one of the validation errors left km.policy as it
\* was.
PolicyValidation ==
  [][/\ (\E k \in DOMAIN auditLog' : auditLog'[k][1] = "KEY_ROTATION_POLICY_UPDATED")
          => /\ 0 < policy'.MinKeyAgeDays
             /\ policy'.MinKeyAgeDays <= policy'.IntervalDays
             /\ policy'.IntervalDays < policy'.MaxKeyAgeDays
             /\ policy'.RetentionCycles >= 1
     /\ kmErr' \in {ErrInterval, ErrMaxAge, ErrRetention} => policy' = policy]_vars

\* C15: lock discipline of the key manager. Every step of checkRotationNeeded
\* that reads km.policy (the step that writes the KEY_ROTATION_CHECK record
\* with the policy's max age and interval) is taken while the sweep holds
\* km.mu, so that no write of RotateKey or UpdateRotationPolicy can fall
\* between the sweep's locking and its last read.
SweepReadsUnderLock ==
  [][(\E k \in DOMAIN auditLog' : auditLog'[k][1] = "KEY_ROTATION_CHECK")
       => muReadLocked]_vars

\* The error the specification names for operations after a failed self-test.
SelfTestFailed == "SelfTestFailed"

\* C16: permanent self-test failure state.  When InitializeKATOnStartup
\* returns false, no EncryptData or DecryptData call succeeds: a call that
\* passed the checks of its arguments has returned SelfTestFailed.
SelfTestGate ==
  ~InitializeKATOnStartup
    => /\ encResult.err \notin {"pending", ErrKeySize(Len(encKey)), ErrNonceSize(Len(encNonce))}
            => encResult = Fail(SelfTestFailed)
       /\ decResult.err = NoError => decResult = Fail(SelfTestFailed)

\* The audit records of the named kind that the step wrote.
Logged(kind) == \E k \in DOMAIN auditLog' : auditLog'[k][1] = kind

FixedNonceDeterminism ==
  (pc = "encrypted" /\ Len(encKey) = KeySize /\ Len(encNonce) = NonceSize)
    => \A draws \in EntropyDraws :
         encResult = EncryptData(encPlaintext, encKey, encNonce, draws)

\* EncryptData has returned a frame for the supplied nonce 0, 1, ..., 15.
EncryptedWithFixedNonce ==
  /\ pc = "encrypted"
  /\ encNonce = Bytes(NonceSize, [i \in 1..NonceSize |-> i - 1])
  /\ encResult.err = NoError
  /\ Len(encResult.data) > NonceSize + TagSize

\* C19: subkey derivation input.  The subkeys EncryptData and DecryptData
\* work with are those DeriveKeysNISTSP80056A yields for the master key and
\* the nonce with base counter 0 and no shared secret: the tag of a returned
\* frame is the HMAC under the last of them, and DecryptData verifies and
\* decrypts with them.
SubkeysFromConcatenationKDF ==
  /\ (pc = "encrypted" /\ encResult.err = NoError)
       => ParseTag(encResult.data)
            = ComputeHMAC(DeriveKeysNISTSP80056A(encKey, encNonce, << >>, 0)[numKeys],
                          encNonce \o ParseCiphertext(encResult.data))
  /\ pc = "verify" => decKeys = DeriveKeysNISTSP80056A(decKey, decNonce, << >>, 0)

\* C20: no early exit in the tag comparison.  Whenever DecryptData has
\* checked a tag, the comparison loop of VerifyHMAC ran once for each of the
\* 64 bytes, wherever the computed and the received tag differ; its
\* accumulator is zero exactly when the tags are equal, and VerifyHMAC
\* returns true exactly when the accumulator is zero.
NoEarlyExit ==
  (macCount > 0 /\ pc \in {"cbc", "done"})
    => LET authKey == decKeys[Len(decKeys)]
           computed == ComputeHMAC(authKey, decNonce \o decCiphertext)
           loop == CompareLoop(computed, decTag)
       IN  /\ Len(computed) = TagSize
           /\ Len(decTag) = TagSize
           /\ loop.iterations = TagSize
           /\ loop.result = 0 <=> computed = decTag
           /\ VerifyHMAC(authKey, decNonce \o decCiphertext, decTag) <=> loop.result = 0
           /\ (decResult = Fail(ErrAuth)) <=> loop.result # 0

\* DecryptData has rejected a frame whose tag differs from the computed one
\* in its first byte already.
RejectedOnFirstTagByte ==
  /\ pc = "done"
  /\ macCount > 0
  /\ decResult = Fail(ErrAuth)
  /\ decTag[1] # ComputeHMAC(decKeys[Len(decKeys)], decNonce \o decCiphertext)[1]

\* C21: permutation inverse.  For the 64-byte blocks EncryptData produces,
\* ReversePermuteBlock(PermuteBlock(b)) = b: every byte returns to its
\* position.
PermutationInverse ==
  (pc = "encrypted" /\ encResult.err = NoError)
    => \A first \in {0} \cup {BlockSize * k : k \in 1..(MaxBlocks - 1)} :
         first + BlockSize <= CiphertextLength(encResult.data)
           => LET b == SubSeq(encResult.data, first + 1, first + BlockSize)
              IN  ReversePermuteBlock(PermuteBlock(b)) = b

\* The round the specification describes: substitution, permutation, XOR
\* with the expanded round key, then XOR of the byte 0x55 ^ round into all
\* bytes of the block.
RoundWithConstant(ct, keys, round) ==
  XorSeq(MixBlock(PermuteBlock(SubstituteBlock(ct)),
                  ExpandKey(keys[(round % Len(keys)) + 1])),
         Repeat(Xor(85, round % 256), Len(ct)))

\* C22: round structure of the block transform.  On the blocks and round
\* keys of a returned frame, EncryptBlock is sixteen rounds of substitution,
\* permutation, round-key XOR and round-constant XOR followed by the XOR with
\* the last round key, and DecryptBlock returns the block EncryptBlock was
\* given.
RoundStructure ==
  (pc = "encrypted" /\ encResult.err = NoError
     /\ CiphertextLength(encResult.data) >= BlockSize)
    => LET b == SubSeq(encResult.data, 1, BlockSize)
           keys == DeriveKeys(encKey)
           c == EncryptBlock(b, keys)
       IN  /\ c = XorSeq(For(LAMBDA ct, round : RoundWithConstant(ct, keys, round),
                             b, 0, Rounds - 1),
                         ExpandKey(keys[numKeys]))
           /\ DecryptBlock(c, keys) = b

(***************************************************************************)
(* Properties of Part III, checked under SpecLC.                           *)
(***************************************************************************)

\* The place of a state on the path Generated -> Activated -> Deactivated ->
\* Destroyed (Rotating, which no function assigns, lies after Activated).
StateRank(state) ==
  IF state = StateGenerated THEN 0
  ELSE IF state = StateActivated THEN 1
  ELSE IF state = StateRotating THEN 2
  ELSE IF state = StateDeactivated THEN 3
  ELSE 4

\* C23: forward-only lifecycle.  In every step a key's state stays or moves
\* forward on Generated -> Activated -> Deactivated -> Destroyed; an
\* ActivateKey that returns no error found the key Generated and a RotateKey
\* that returns no error found it Activated; a Destroyed key stays Destroyed,
\* and ActivateKey and DeactivateKey on it return an error.
ForwardOnlyLifecycle ==
  [][\A k \in DOMAIN lcKeys :
       LET before == lcKeys[k].State
           after == lcKeys'[k].State
           succeeded == lcRet'.returned /\ lcRet'.err = NoError
       IN  /\ StateRank(before) <= StateRank(after)
           /\ (ActivateKey /\ succeeded) => before = StateGenerated
           /\ (RotateKeyLC /\ succeeded) => before = StateActivated
           /\ before = StateDestroyed
                => /\ after = StateDestroyed
                   /\ ~(ActivateKey /\ succeeded)
                   /\ ~(DeactivateKey /\ succeeded)]_vars

\* An HSM whose ImportKey fails: it is not online.
OfflineHSM == HSMIntegration("pkcs11", FALSE)

HSMCallsReturn ==
  /\ lcRet.returned
  /\ hsmPc = "LogAudit" => hsmMu = "free"
  /\ (hsmPc # "none" /\ hsm.HSMType \in SupportedHSMTypes)
       => hsmPc = "ready" /\ hsm.Online

LastActivationOrRotation(keyLC) ==
  IF keyLC.RotationCount > 0 THEN keyLC.RotationDue ELSE keyLC.Activated

\* C27: annual rotation schedule.  GetKeysNeedingRotation returns exactly
\* the Activated keys whose activation or last rotation lies more than
\* rotationInterval (365 days) back.
AnnualRotationSchedule ==
  [][GetKeysNeedingRotation
       => lcRet'.ids = {k \in DOMAIN lcKeys :
                          /\ lcKeys[k].State = StateActivated
                          /\ lcNow - LastActivationOrRotation(lcKeys[k])
                               > rotationInterval}]_vars

(***************************************************************************)
(* Further properties of the KeyManager, checked under SpecKM.             *)
(***************************************************************************)

\* C28: returned key bytes are stable.  The bytes behind a key slice the
\* caller obtained from GetKeyByVersion are the bytes the caller read when
\* it obtained the slice.
ReturnedKeyStable ==
  held.ref # NilRef => heap[held.ref] = held.seen

\* C29: retention bound.  The versions in state Active or Rotated are at
\* most policy.RetentionCycles.
RetentionBound == ActiveCount(history) <= policy.RetentionCycles

(***************************************************************************)
(* Properties of Part IV, checked under SpecC3.                            *)
(***************************************************************************)

\* C30: unique block counters.  No two results of EncryptBlockSHA3 carry the
\* same Counter, nor the same counter-varied MAC key.
UniqueBlockCounters ==
  \A i, j \in 1..Len(c3Results) :
    i # j => /\ c3Results[i].Counter # c3Results[j].Counter
             /\ c3Results[i].MACKey # c3Results[j].MACKey

====
